---- MODULE Spec2Model ----
(***************************************************************************)
(* Code generation pass of re2c (src/codegen/pass2_generate.cc): the       *)
(* functions that turn DFA states, transitions and tag commands into a     *)
(* code tree.  A code list is a sequence of statement records; every       *)
(* statement has a field k naming its kind.                                *)
(***************************************************************************)
EXTENDS Integers, Sequences, FiniteSets, TLC

(* ---------------- bounds of the checked input space -------------------- *)
MaxCmds == 3        \* longest tag command list given to gen_settags
MaxHist == 2        \* longest tag history (before the terminator)
MaxTcid == 2        \* tag command lists 1..MaxTcid besides the empty TCID0
MaxTags == 2        \* most tags of a rule besides its two base tags
MaxConds == 4       \* most conditions of a block with a condition dispatch
MaxFills == 2       \* most YYFILL points of a block in a state switch
MaxLen == 5    \* characters of an input of the m-tag lexer before its NUL
MaxAcc == 4    \* rows of the accept table of an ACCEPT state

(* ---------------- sentinels -------------------------------------------- *)
TAGVER_ZERO == 0
TAGVER_BOTTOM == -1
TCID0 == 0
NOEOF == -1
NULL == [null |-> TRUE]

VARIABLES
    opts,       \* option bundle of the block (opt_t)
    dfa,        \* the parts of Adfa read by the generator
    op,         \* name of the generator function applied last
    from,       \* the State or the code item given to the last call (NULL if none)
    jump,       \* the CodeJump argument of the last call (NULL if none)
    code,       \* the code list, or the code item, produced by the last call
    output,     \* the parts of Output read by the directives (NULL if none)
    ret,        \* the status returned by the last call (Ret)
    pc          \* the position of codegen_generate in the blocks (NULL if none)

vars == <<opts, dfa, op, from, jump, code, output, ret, pc>>

(* ---------------- small helpers on sequences --------------------------- *)
RECURSIVE SeqsUpTo(_, _)
SeqsUpTo(S, n) ==
    IF n = 0 THEN {<<>>}
    ELSE LET P == SeqsUpTo(S, n - 1)
         IN  P \cup {Append(p, x) : p \in {q \in P : Len(q) = n - 1}, x \in S}

(* ---------------- tag commands (tcmd_t) -------------------------------- *)
\* A command is [lhs, rhs, history]; history is the array including its
\* TAGVER_ZERO terminator.
iscopy(x) == x.rhs # TAGVER_ZERO /\ x.history[1] = TAGVER_ZERO

isset(x) == x.rhs = TAGVER_ZERO

isadd(x) == x.rhs # TAGVER_ZERO /\ x.history[1] # TAGVER_ZERO

vartag_expr(ver, is_mtag) == [tagver |-> ver, mtag |-> is_mtag]

CursorExpr == [api |-> "cursor"]
NullExpr == [api |-> "NULL"]
CtxmarkerExpr == [api |-> "ctxmarker"]

\* gen_assign / gen_assign_many: lhs is the list of assigned expressions
gen_assign(lhs, rhs) == [k |-> "assign", lhs |-> lhs, rhs |-> rhs]

gen_settag(tag, negative, history) ==
    [k |-> "settag", tag |-> tag, negative |-> negative, history |-> history,
     form |-> IF opts.api_style = "FUNCTIONS" THEN "stmt" ELSE "text"]

\* index of the terminator: for (h0 = h; *h != TAGVER_ZERO; ++h);
RECURSIVE HistEnd(_, _)
HistEnd(h, i) == IF h[i] = TAGVER_ZERO THEN i ELSE HistEnd(h, i + 1)

\* variant of the history loop that iterates in storage order
gen_history_forward(le, h, i) ==
    [j \in 1 .. (i - 1) |-> gen_settag(le, h[j] = TAGVER_BOTTOM, TRUE)]

\* for (; h --> h0; ): elements i-1, i-2, ..., 1
RECURSIVE gen_history(_, _, _)
gen_history(le, h, i) ==
    IF i <= 1 THEN <<>>
    ELSE <<gen_settag(le, h[i - 1] = TAGVER_BOTTOM, TRUE)>> \o gen_history(le, h, i - 1)

\* variant of the run loop that stops after one command
RunLen_single(cmds, i) ==
    IF i <= Len(cmds) /\ isset(cmds[i]) THEN 1 ELSE 0

\* length of the run of "save" commands starting at position i of cmds
RECURSIVE RunLen(_, _)
RunLen(cmds, i) ==
    IF i <= Len(cmds) /\ isset(cmds[i]) THEN 1 + RunLen(cmds, i + 1) ELSE 0

\* neg/pos expression lists collected from cmds[i .. i+n-1]
RunExprs(cmds, i, n, is_mtag, negative) ==
    LET idx == {j \in i .. (i + n - 1) :
                    (cmds[j].history[1] = TAGVER_BOTTOM) = negative}
        F[j \in i .. (i + n)] ==
            IF j = i + n THEN <<>>
            ELSE (IF j \in idx THEN <<vartag_expr(cmds[j].lhs, is_mtag)>> ELSE <<>>)
                 \o F[j + 1]
    IN  F[i]

\* the loop of gen_settags over the command list, from position i
RECURSIVE gen_settags_from(_, _)
gen_settags_from(cmds, i) ==
    IF i > Len(cmds) THEN <<>>
    ELSE
      LET p == cmds[i]
          is_mtag == p.lhs \in dfa.mtagvers
          le == vartag_expr(p.lhs, is_mtag)
          re == vartag_expr(p.rhs, is_mtag)
      IN
      IF iscopy(p) THEN
          <<gen_assign(<<le>>, re)>> \o gen_settags_from(cmds, i + 1)
      ELSE IF isadd(p) THEN
          (IF p.lhs # p.rhs THEN <<gen_assign(<<le>>, re)>> ELSE <<>>)
          \o gen_history(le, p.history, HistEnd(p.history, 1))
          \o gen_settags_from(cmds, i + 1)
      ELSE IF opts.api = "CUSTOM" THEN
          <<gen_settag(le, p.history[1] = TAGVER_BOTTOM, FALSE)>>
          \o gen_settags_from(cmds, i + 1)
      ELSE
          LET n == RunLen(cmds, i)
              neg == RunExprs(cmds, i, n, is_mtag, TRUE)
              pos == RunExprs(cmds, i, n, is_mtag, FALSE)
          IN  (IF neg # <<>> THEN <<gen_assign(neg, NullExpr)>> ELSE <<>>)
              \o (IF pos # <<>> THEN <<gen_assign(pos, CursorExpr)>> ELSE <<>>)
              \o gen_settags_from(cmds, i + n)

gen_settags(tcid) ==
    LET cmd == dfa.tcpool[tcid]
    IN  IF cmd # <<>> /\ dfa.oldstyle_ctxmarker THEN
            IF opts.api = "CUSTOM"
            THEN <<[k |-> "backup_ctx",
                    form |-> IF opts.api_style = "FUNCTIONS" THEN "stmt" ELSE "text"]>>
            ELSE <<gen_assign(<<CtxmarkerExpr>>, CursorExpr)>>
        ELSE gen_settags_from(cmd, 1)

(* ---------------- states and jumps ------------------------------------- *)
\* A State is a record; the fields read through a State pointer are copied
\* into the record: id is the label index of the state, used its label's
\* used-flag, go.span the action kinds of the destinations of its spans.
endstate(s) ==
    Len(s.go.span) = 1 /\ s.go.span[1] \in {"RULE", "ACCEPT"}

\* variant of omit_peek that forgets that a MOVE destination needs yych
omit_peek_nomove(s) ==
    s.kind = "MOVE" \/ Len(s.go.span) = 1

omit_peek(s) ==
    s.kind = "MOVE" \/ (Len(s.go.span) = 1 /\ s.go.span[1] # "MOVE")

\* variant of need_yych_arg that looks at the peek only
need_yych_arg_omit(s) == omit_peek(s)

need_yych_arg(s) == omit_peek(s) /\ Len(s.go.span) > 1 /\ ~endstate(s)

gen_peek(s) == IF ~omit_peek(s) THEN <<[k |-> "peek"]>> ELSE <<>>

gen_state_set(fillidx) == <<[k |-> "state_set", state |-> fillidx]>>

gen_less_than(n) ==
    IF opts.api = "CUSTOM" THEN [c |-> "less_than", form |-> "api", n |-> n]
    ELSE IF n = 1 THEN [c |-> "less_than", form |-> "limit <= cursor", n |-> n]
    ELSE [c |-> "less_than", form |-> "(limit - cursor) < n", n |-> n]

gen_fill_label(index) == [l |-> "fill", index |-> index]

\* yystate := next; continue
gen_continue_yyloop(next) ==
    <<[k |-> "assign_state", next |-> next], [k |-> "continue"]>>

\* fallback_state_with_eof_rule: the fallback state and the tags of the
\* fallback transition are computed before code generation and read here
fallback_state_with_eof_rule(s) == [state |-> s.fallback, tags |-> s.falltags]

\* transfer of control to the state with the given label index (the switch
\* over code_model shared by gen_fill_falllback, gen_goto_after_fill, gen_goto)
StateLabel(index) == [l |-> "state", index |-> index]

\* variant of gen_fill_falllback that forgets the YYSKIP test of the elision
gen_fill_falllback_noskiptest(s, j) ==
    LET fb == fallback_state_with_eof_rule(s)
        falltags == IF s.go.tags # TCID0 THEN TCID0 ELSE fb.tags
    IN  IF /\ j # NULL
           /\ fb.state.id = j.to.id
           /\ falltags = j.tags
           /\ ~(opts.code_model = "REC_FUNC" /\ opts.fill_enable)
        THEN <<>>
        ELSE gen_settags(falltags) \o
             CASE opts.code_model = "GOTO_LABEL" ->
                    <<[k |-> "goto", label |-> StateLabel(fb.state.id)]>>
               [] opts.code_model = "LOOP_SWITCH" ->
                    gen_continue_yyloop(StateLabel(fb.state.id))
               [] opts.code_model = "REC_FUNC" ->
                    <<[k |-> "tailcall", fn |-> StateLabel(fb.state.id), yych |-> FALSE]>>

\* variant of gen_fill_falllback that keeps the tags of the fallback
\* transition when the tags of the state are hoisted
gen_fill_falllback_dup(s, j) ==
    LET fb == fallback_state_with_eof_rule(s)
    IN  IF /\ j # NULL
           /\ fb.state.id = j.to.id
           /\ fb.tags = j.tags
           /\ ~j.skip
           /\ ~(opts.code_model = "REC_FUNC" /\ opts.fill_enable)
        THEN <<>>
        ELSE gen_settags(fb.tags) \o
             CASE opts.code_model = "GOTO_LABEL" ->
                    <<[k |-> "goto", label |-> StateLabel(fb.state.id)]>>
               [] opts.code_model = "LOOP_SWITCH" ->
                    gen_continue_yyloop(StateLabel(fb.state.id))
               [] opts.code_model = "REC_FUNC" ->
                    <<[k |-> "tailcall", fn |-> StateLabel(fb.state.id), yych |-> FALSE]>>

gen_fill_falllback(s, j) ==
    LET fb == fallback_state_with_eof_rule(s)
        fallback == fb.state
        \* hoisted tags are not repeated on the fallback transition
        falltags == IF s.go.tags # TCID0 THEN TCID0 ELSE fb.tags
    IN  IF /\ j # NULL
           /\ fallback.id = j.to.id
           /\ falltags = j.tags
           /\ ~j.skip
           /\ ~(opts.code_model = "REC_FUNC" /\ opts.fill_enable)
        THEN <<>>
        ELSE gen_settags(falltags) \o
             CASE opts.code_model = "GOTO_LABEL" ->
                    <<[k |-> "goto", label |-> StateLabel(fallback.id)]>>
               [] opts.code_model = "LOOP_SWITCH" ->
                    gen_continue_yyloop(StateLabel(fallback.id))
               [] opts.code_model = "REC_FUNC" ->
                    <<[k |-> "tailcall", fn |-> StateLabel(fallback.id), yych |-> FALSE]>>

\* gen_if appends to the list: an IF with ELSE in rec/func mode, an IF
\* followed by the second transition otherwise
gen_if(cond, trans1, trans2) ==
    IF opts.code_model = "REC_FUNC"
    THEN <<[k |-> "if", cond |-> cond, then |-> trans1, has_else |-> TRUE, else |-> trans2]>>
    ELSE <<[k |-> "if", cond |-> cond, then |-> trans1, has_else |-> FALSE, else |-> <<>>]>>
         \o trans2

gen_goto_after_fill(s, j) ==
    LET eof_rule == opts.fill_eof # NOEOF
        fs == s.fill_state
        resume ==
            CASE opts.code_model = "GOTO_LABEL" ->
                    IF opts.storable_state \/ eof_rule
                    THEN <<[k |-> "goto", label |-> gen_fill_label(fs.fill_label)]>>
                    ELSE <<>>
              [] opts.code_model = "LOOP_SWITCH" ->
                    gen_continue_yyloop(StateLabel(fs.id))
              [] opts.code_model = "REC_FUNC" ->
                    <<[k |-> "tailcall", fn |-> StateLabel(fs.id), yych |-> FALSE]>>
    IN  IF opts.storable_state /\ eof_rule
        THEN gen_if(gen_less_than(1), gen_fill_falllback(s, j), resume)
        ELSE resume

\* the YYFILL invocation: need is the length argument (absent with the EOF
\* rule), tested tells whether " == 0" is appended to the call
FillCall(need, tested) ==
    [call |-> "fill",
     len |-> IF opts.fill_eof # NOEOF THEN <<>> ELSE <<need>>,
     tested |-> tested]

\* variant of gen_fill that tests the YYFILL result with storable state too
gen_fill_always_tested(tail, s, j) ==
    LET eof_rule == opts.fill_eof # NOEOF
        need == IF eof_rule THEN 1 ELSE s.fill
        setstate == IF opts.storable_state
                    THEN gen_state_set(s.fill_state.fill_label) ELSE <<>>
        fill ==
            IF opts.fill_enable THEN
                setstate \o
                (IF eof_rule THEN
                    LET call == FillCall(need, ~opts.fill_naked)
                        rematch == gen_goto_after_fill(s, j)
                        fallback == gen_fill_falllback(s, j)
                    IN  IF opts.var_fill # ""
                        THEN <<[k |-> "fill", call |-> call, naked |-> opts.fill_naked]>>
                             \o gen_if([c |-> "var", var |-> opts.var_fill],
                                       rematch, fallback)
                        ELSE gen_if([c |-> "call", call |-> call], rematch, fallback)
                 ELSE <<[k |-> "fill", call |-> FillCall(need, FALSE),
                         naked |-> opts.fill_naked]>>)
            ELSE IF eof_rule /\ ~opts.storable_state THEN gen_fill_falllback(s, j)
            ELSE <<>>
    IN  IF opts.fill_check /\ fill # <<>>
        THEN gen_if(gen_less_than(need), fill, tail)
        ELSE fill \o tail

\* variant of gen_fill that resumes on failure and falls back on success
gen_fill_swapped(tail, s, j) ==
    LET eof_rule == opts.fill_eof # NOEOF
        need == IF eof_rule THEN 1 ELSE s.fill
        setstate == IF opts.storable_state
                    THEN gen_state_set(s.fill_state.fill_label) ELSE <<>>
        fill ==
            IF opts.fill_enable THEN
                setstate \o
                (IF eof_rule /\ ~opts.storable_state THEN
                    LET call == FillCall(need, ~opts.fill_naked)
                        rematch == gen_goto_after_fill(s, j)
                        fallback == gen_fill_falllback(s, j)
                    IN  IF opts.var_fill # ""
                        THEN <<[k |-> "fill", call |-> call, naked |-> opts.fill_naked]>>
                             \o gen_if([c |-> "var", var |-> opts.var_fill],
                                       fallback, rematch)
                        ELSE gen_if([c |-> "call", call |-> call], fallback, rematch)
                 ELSE <<[k |-> "fill", call |-> FillCall(need, FALSE),
                         naked |-> opts.fill_naked]>>)
            ELSE IF eof_rule /\ ~opts.storable_state THEN gen_fill_falllback(s, j)
            ELSE <<>>
    IN  IF opts.fill_check /\ fill # <<>>
        THEN gen_if(gen_less_than(need), fill, tail)
        ELSE fill \o tail

gen_fill(tail, s, j) ==
    LET eof_rule == opts.fill_eof # NOEOF
        need == IF eof_rule THEN 1 ELSE s.fill
        setstate == IF opts.storable_state
                    THEN gen_state_set(s.fill_state.fill_label) ELSE <<>>
        fill ==
            IF opts.fill_enable THEN
                setstate \o
                (IF eof_rule /\ ~opts.storable_state THEN
                    LET call == FillCall(need, ~opts.fill_naked)
                    IN  (IF opts.var_fill # ""
                         THEN <<[k |-> "fill", call |-> call, naked |-> opts.fill_naked]>>
                         ELSE <<>>)
                        \o gen_if(IF opts.var_fill # ""
                                  THEN [c |-> "var", var |-> opts.var_fill]
                                  ELSE [c |-> "call", call |-> call],
                                  gen_goto_after_fill(s, j), gen_fill_falllback(s, j))
                 ELSE <<[k |-> "fill", call |-> FillCall(need, FALSE),
                         naked |-> opts.fill_naked]>>)
            ELSE IF eof_rule /\ ~opts.storable_state THEN gen_fill_falllback(s, j)
            ELSE <<>>
        Checked(f) ==
            IF opts.fill_check /\ f # <<>>
            THEN gen_if(gen_less_than(need), f, tail)
            ELSE f \o tail
    IN  Checked(fill)

gen_goto(s, j) ==
    LET transition ==
            gen_settags(j.tags)
            \o (IF j.skip THEN <<[k |-> "skip"]>> ELSE <<>>)
            \o (IF ~j.elide /\ j.to.used THEN
                    CASE opts.code_model = "GOTO_LABEL" ->
                           <<[k |-> "goto", label |-> StateLabel(j.to.id)]>>
                      [] opts.code_model = "LOOP_SWITCH" ->
                           gen_continue_yyloop(StateLabel(j.to.id))
                      [] opts.code_model = "REC_FUNC" ->
                           <<[k |-> "tailcall", fn |-> StateLabel(j.to.id),
                              yych |-> need_yych_arg(j.to)]>>
                 ELSE <<>>)
    IN  IF j.eof THEN gen_fill(transition, s, j) ELSE transition

(* ---------------- transitions of a state (gen_go) ---------------------- *)
\* A CodeGo is [kind, tags, skip, jumps, conds, hjumps, bm]: jumps are the
\* leaf jumps of the switch / if tree (of the low sub-dispatch lgo for a
\* bitmap), conds the character comparisons of the branches, hjumps the
\* jumps of the high-byte sub-dispatch hgo (empty if there is none), bm the
\* state of the bitmap.
gen_cond(cond) == [c |-> "char", cmp |-> cond]

\* the transitions of a list of jumps: gen_goto of every jump
Transitions(s, jumps) == [i \in 1 .. Len(jumps) |-> gen_goto(s, jumps[i])]

\* switch on yych: one case per jump, the default case is appended last
gen_gosw(jumps, defcase, s) ==
    LET others == SelectSeq([i \in 1 .. Len(jumps) |-> i], LAMBDA i : i # defcase)
        Switch(body) ==
            <<[k |-> "switch", expr |-> "yych",
               cases |-> [n \in 1 .. Len(others) |->
                            [default |-> FALSE, body |-> body[others[n]]]]
                         \o <<[default |-> TRUE, body |-> body[defcase]]>>]>>
    IN  Switch(Transitions(s, jumps))

\* linear if over the transitions trans: a sequence of IF statements closed
\* by the unconditional last jump
RECURSIVE gen_goifl_seq(_, _, _)
gen_goifl_seq(trans, conds, i) ==
    IF i > Len(trans) THEN <<>>
    ELSE IF i < Len(trans)
    THEN <<[k |-> "if", cond |-> gen_cond(conds[i]), then |-> trans[i],
            has_else |-> FALSE, else |-> <<>>]>>
         \o gen_goifl_seq(trans, conds, i + 1)
    ELSE trans[i]

\* linear if over the transitions trans; in rec/func mode one
\* IF / ELSE-IF / ELSE statement
GoIfl(trans, conds) ==
    IF opts.code_model # "REC_FUNC" THEN gen_goifl_seq(trans, conds, 1)
    ELSE IF Len(trans) = 1 THEN trans[1]
    ELSE <<[k |-> "ifte",
            branches |-> [i \in 1 .. Len(trans) |->
                            [cond |-> IF i < Len(trans) THEN gen_cond(conds[i])
                                      ELSE [c |-> "else"],
                             then |-> trans[i]]]]>>

gen_goifl(jumps, conds, s) == GoIfl(Transitions(s, jumps), conds)

\* binary if over two linear sub-trees (jumps split at position m)
gen_goifb(jumps, conds, m, s) ==
    LET Split(trans) ==
            <<[k |-> "if", cond |-> gen_cond(conds[m]),
               then |-> GoIfl(SubSeq(trans, 1, m), conds),
               has_else |-> TRUE,
               else |-> GoIfl(SubSeq(trans, m + 1, Len(trans)),
                              SubSeq(conds, m + 1, Len(conds)))]>>
    IN  Split(Transitions(s, jumps))

\* bitmap test: trans holds the transition to the bitmap state, those of the
\* high-byte jumps and those of the other jumps
gen_gobm(go, s) ==
    LET elif_cond == [c |-> "bitmap"]
        nh == Len(go.hjumps)
        Tested(trans) ==
            (IF go.hjumps # <<>>
             THEN <<[k |-> "ifte",
                     branches |-> <<[cond |-> [c |-> "highbyte"],
                                     then |-> GoIfl(SubSeq(trans, 2, nh + 1), go.conds)],
                                    [cond |-> elif_cond, then |-> trans[1]]>>]>>
             ELSE <<[k |-> "if", cond |-> elif_cond, then |-> trans[1],
                     has_else |-> FALSE, else |-> <<>>]>>)
            \o (IF go.jumps # <<>>
                THEN GoIfl(SubSeq(trans, nh + 2, Len(trans)), go.conds) ELSE <<>>)
    IN  Tested(Transitions(s, <<[to |-> go.bm, tags |-> TCID0, skip |-> FALSE,
                                 elide |-> FALSE, eof |-> FALSE]>>
                              \o go.hjumps \o go.jumps))

gen_gocp(go, s) ==
    LET if_else == <<[k |-> "array", name |-> "yytarget"],
                     [k |-> "goto", label |-> [l |-> "table", index |-> 0]]>>
    IN  IF go.hjumps # <<>>
        THEN <<[k |-> "if", cond |-> [c |-> "highbyte"],
                then |-> gen_goifl(go.hjumps, go.conds, s),
                has_else |-> TRUE, else |-> if_else]>>
        ELSE <<[k |-> "block", body |-> if_else]>>

\* variant of gen_go that emits the hoisted tags whatever the EOF rule
gen_go_tags_always(go, s) ==
    gen_settags(go.tags)
    \o (IF go.skip THEN <<[k |-> "skip"]>> ELSE <<>>)
    \o CASE go.kind = "SWITCH" -> gen_gosw(go.jumps, go.defcase, s)
          [] go.kind = "IFL" -> gen_goifl(go.jumps, go.conds, s)
          [] go.kind = "IFB" -> gen_goifb(go.jumps, go.conds, go.defcase, s)
          [] go.kind = "BITMAP" -> gen_gobm(go, s)
          [] go.kind = "CPGOTO" -> gen_gocp(go, s)

gen_go(go, s) ==
    (IF opts.fill_eof = NOEOF THEN gen_settags(go.tags) ELSE <<>>)
    \o (IF go.skip THEN <<[k |-> "skip"]>> ELSE <<>>)
    \o CASE go.kind = "SWITCH" -> gen_gosw(go.jumps, go.defcase, s)
          [] go.kind = "IFL" -> gen_goifl(go.jumps, go.conds, s)
          [] go.kind = "IFB" -> gen_goifb(go.jumps, go.conds, go.defcase, s)
          [] go.kind = "BITMAP" -> gen_gobm(go, s)
          [] go.kind = "CPGOTO" -> gen_gocp(go, s)
          [] OTHER -> <<>>

(* ---------------- state actions (emit_action) -------------------------- *)
\* variant of gen_fill_and_label that fills in end states too
gen_fill_and_label_noend(s) ==
    (IF opts.fill_enable /\ opts.fill_eof = NOEOF /\ s.fill > 0
     THEN gen_fill(<<>>, s, NULL) ELSE <<>>)
    \o (IF opts.fill_eof # NOEOF THEN gen_settags(s.go.tags) ELSE <<>>)
    \o (IF s.fill_label # <<>> /\ opts.code_model = "GOTO_LABEL"
        THEN <<[k |-> "slabel", label |-> gen_fill_label(s.fill_label[1])]>>
        ELSE <<>>)

gen_fill_and_label(s) ==
    (IF opts.fill_enable /\ ~endstate(s) /\ opts.fill_eof = NOEOF /\ s.fill > 0
     THEN gen_fill(<<>>, s, NULL) ELSE <<>>)
    \o (IF opts.fill_eof # NOEOF THEN gen_settags(s.go.tags) ELSE <<>>)
    \o (IF s.fill_label # <<>> /\ opts.code_model = "GOTO_LABEL"
        THEN <<[k |-> "slabel", label |-> gen_fill_label(s.fill_label[1])]>>
        ELSE <<>>)

gen_debug(index) ==
    IF ~opts.debug THEN <<>> ELSE <<[k |-> "debug", state |-> index]>>

AcceptJump(a) ==
    [to |-> a.state, tags |-> a.tags, skip |-> FALSE, elide |-> FALSE, eof |-> FALSE]

\* variant of emit_accept_binary with the branches of the IF exchanged
RECURSIVE emit_accept_binary_swapped(_, _, _)
emit_accept_binary_swapped(acc, l, r) ==
    IF l < r
    THEN LET m == (l + r) \div 2
         IN  <<[k |-> "if",
                cond |-> [c |-> "accept", cmp |-> IF r = l + 1 THEN "==" ELSE "<=",
                          val |-> m],
                then |-> emit_accept_binary_swapped(acc, m + 1, r),
                has_else |-> TRUE,
                else |-> emit_accept_binary_swapped(acc, l, m)]>>
    ELSE gen_goto(NULL, AcceptJump(acc[l + 1]))

RECURSIVE emit_accept_binary(_, _, _)
emit_accept_binary(acc, l, r) ==
    IF l < r
    THEN LET m == (l + r) \div 2
         IN  <<[k |-> "if",
                cond |-> [c |-> "accept", cmp |-> IF r = l + 1 THEN "==" ELSE "<=",
                          val |-> m],
                then |-> emit_accept_binary(acc, l, m),
                has_else |-> TRUE,
                else |-> emit_accept_binary(acc, m + 1, r)]>>
    ELSE gen_goto(NULL, AcceptJump(acc[l + 1]))

\* variant of emit_accept without the case of a single accept row
emit_accept_noshortcut(acc) ==
    LET nacc == Len(acc)
    IN  IF nacc = 0 THEN <<>>
        ELSE <<[k |-> "restore"]>> \o
             (IF opts.nested_ifs \/ nacc = 2
              THEN emit_accept_binary(acc, 0, nacc - 1)
              ELSE <<[k |-> "switch", expr |-> "yyaccept",
                      cases |-> [i \in 1 .. nacc |->
                                   IF i = nacc
                                   THEN [default |-> TRUE,
                                         body |-> gen_goto(NULL, AcceptJump(acc[i]))]
                                   ELSE [default |-> FALSE, number |-> i - 1,
                                         body |-> gen_goto(NULL, AcceptJump(acc[i]))]]]>>)

\* acc is the sequence of accept rows; row i of the source is acc[i + 1]
emit_accept(acc) ==
    LET nacc == Len(acc)
        have_tags == \E i \in 1 .. nacc : acc[i].tags # TCID0
    IN  IF nacc = 0 THEN <<>>
        ELSE <<[k |-> "restore"]>> \o
             (IF nacc = 1 THEN gen_goto(NULL, AcceptJump(acc[1]))
              ELSE IF opts.computed_gotos /\ nacc >= opts.computed_gotos_threshold
                      /\ ~have_tags
              THEN <<[k |-> "block",
                      body |-> <<[k |-> "array", name |-> "yytarget",
                                  elems |-> [i \in 1 .. nacc |-> StateLabel(acc[i].state.id)]],
                                 [k |-> "goto", label |-> [l |-> "table", index |-> 0]]>>]>>
              ELSE IF opts.nested_ifs \/ nacc = 2
              THEN emit_accept_binary(acc, 0, nacc - 1)
              ELSE <<[k |-> "switch", expr |-> "yyaccept",
                      cases |-> [i \in 1 .. nacc |->
                                   IF i = nacc
                                   THEN [default |-> TRUE,
                                         body |-> gen_goto(NULL, AcceptJump(acc[i]))]
                                   ELSE [default |-> FALSE, number |-> i - 1,
                                         body |-> gen_goto(NULL, AcceptJump(acc[i]))]]]>>)

(* ---------------- final tags of a rule (gen_fintags) ------------------- *)
\* A Tag is [kind, trailing, history, fixed, dist, base, toplevel, lsub,
\* hsub, name]; kind is "fictive", "named" or "capture"; base is the index of
\* the base tag in dfa.tags (counted from 0) or RIGHTMOST.
RIGHTMOST == -1

fictive(tag) == tag.kind = "fictive"

capture(tag) == tag.kind = "capture"

trailing(tag) == tag.trailing

history(tag) == tag.history

fixed(tag) == tag.fixed

\* the expression of a final tag: in rec/func mode it is wrapped in the
\* tags_expression of the state passed between the functions
fintag_expr(name) ==
    [fin |-> name, idx |-> <<>>, wrapped |-> opts.code_model = "REC_FUNC"]

\* element i of the yypmatch array
ArrayElem(i) ==
    [fin |-> "yypmatch", idx |-> <<i>>, wrapped |-> opts.code_model = "REC_FUNC"]

RECURSIVE SubmatchRange(_, _)
SubmatchRange(i, hsub) ==
    IF i > hsub THEN <<>> ELSE <<ArrayElem(i)>> \o SubmatchRange(i + 2, hsub)

expand_fintags(tag) ==
    IF trailing(tag) THEN <<>>
    ELSE IF ~capture(tag) THEN <<fintag_expr(tag.name)>>
    ELSE SubmatchRange(tag.lsub, tag.hsub)

\* variant of gen_shift that uses the m-tag shift for every tag
gen_shift_mtag(shift, tag, hist) ==
    IF shift = 0 THEN <<>>
    ELSE <<[k |-> "shift", tag |-> tag, shift |-> shift, history |-> tag # <<>>,
            form |-> IF opts.api_style = "FUNCTIONS" THEN "stmt" ELSE "text"]>>

\* tag is <<>> (no tag: YYSHIFT) or <<expr>> (YYSHIFTSTAG / YYSHIFTMTAG)
gen_shift(shift, tag, hist) ==
    IF shift = 0 THEN <<>>
    ELSE <<[k |-> "shift", tag |-> tag, shift |-> shift,
            history |-> (tag # <<>> /\ hist),
            form |-> IF opts.api_style = "FUNCTIONS" THEN "stmt" ELSE "text"]>>

\* tag is <<>> (YYRESTORECTX) or <<expr>> (YYRESTORETAG)
gen_restore_ctx(tag) ==
    <<[k |-> "restore_ctx", tag |-> tag,
       form |-> IF opts.api_style = "FUNCTIONS" THEN "stmt" ELSE "text"]>>

gen_assign_many_to_first(many) ==
    IF Len(many) <= 1 THEN <<>>
    ELSE <<gen_assign(Tail(many), many[1])>>

\* base - dist as the right-hand side of an assignment
BaseMinus(base, dist) == [base |-> base, minus |-> dist]

\* code_assign with an operator, and the statement "first -= dist"
AssignOp(lhs, dist, form) ==
    [k |-> "assign_op", lhs |-> lhs, op |-> "-", rhs |-> [num |-> dist], form |-> form]

\* code_if_then_else(cond, then, nullptr) on "lhs != rhs"
IfNotEqual(lhs, rhs, then) ==
    [k |-> "if", cond |-> [c |-> "ne", lhs |-> lhs, rhs |-> rhs], then |-> then,
     has_else |-> FALSE, else |-> <<>>]

\* the four lists and negtag (<<>> while not chosen) before any tag
NoFinOps ==
    [varops |-> <<>>, fixops |-> <<>>, trailops |-> <<>>, fixpostops |-> <<>>,
     negtag |-> <<>>]

\* one iteration of the loop over the tags of the rule: tag number t
FinTagStep(acc, t) ==
    LET tag == dfa.tags[t + 1]
        generic == opts.api = "CUSTOM"
        fintags == expand_fintags(tag)
    IN
    IF fictive(tag) THEN acc
    ELSE IF ~fixed(tag) THEN
        LET expr == vartag_expr(dfa.finvers[t + 1], history(tag))
            notag == dfa.oldstyle_ctxmarker
        IN  IF trailing(tag) THEN
                IF generic
                THEN [acc EXCEPT !.trailops =
                        @ \o gen_restore_ctx(IF notag THEN <<>> ELSE <<expr>>)]
                ELSE [acc EXCEPT !.trailops =
                        @ \o <<gen_assign(<<CursorExpr>>,
                                          IF notag THEN CtxmarkerExpr ELSE expr)>>]
            ELSE [acc EXCEPT !.varops = @ \o <<gen_assign(fintags, expr)>>]
    ELSE
        LET dist == tag.dist
            fixed_on_cursor == tag.base = RIGHTMOST
            base == IF fixed_on_cursor THEN CursorExpr
                    ELSE vartag_expr(dfa.finvers[tag.base + 1], history(tag))
            first == fintags[1]
        IN
        IF trailing(tag) THEN
            IF generic THEN
                [acc EXCEPT !.trailops =
                    @ \o (IF ~fixed_on_cursor THEN gen_restore_ctx(<<base>>) ELSE <<>>)
                      \o gen_shift(-dist, <<>>, FALSE)]
            ELSE IF ~fixed_on_cursor THEN
                [acc EXCEPT !.trailops =
                    @ \o <<gen_assign(<<CursorExpr>>,
                                      IF dist > 0 THEN BaseMinus(base, dist) ELSE base)>>]
            ELSE [acc EXCEPT !.trailops = @ \o <<AssignOp(<<CursorExpr>>, dist, "assign")>>]
        ELSE IF generic THEN
            IF fixed_on_cursor THEN
                [acc EXCEPT !.fixops =
                    @ \o <<gen_settag(first, FALSE, FALSE)>>
                      \o gen_shift(-dist, <<first>>, FALSE)
                      \o gen_assign_many_to_first(fintags)]
            ELSE IF dist = 0 THEN
                [acc EXCEPT !.fixops = @ \o <<gen_assign(fintags, base)>>]
            ELSE IF tag.toplevel THEN
                [acc EXCEPT !.fixops =
                    @ \o <<gen_assign(<<first>>, base)>>
                      \o gen_shift(-dist, <<first>>, FALSE)
                      \o gen_assign_many_to_first(fintags)]
            ELSE
                LET negtag == IF acc.negtag = <<>> THEN <<base>> ELSE acc.negtag
                IN  [acc EXCEPT
                        !.negtag = negtag,
                        !.fixops = @ \o <<gen_assign(<<first>>, base)>>,
                        !.fixpostops =
                            @ \o <<IfNotEqual(first, negtag[1],
                                              gen_shift(-dist, <<first>>, FALSE))>>]
        ELSE
            IF dist = 0 THEN
                [acc EXCEPT !.fixops = @ \o <<gen_assign(fintags, base)>>]
            ELSE IF tag.toplevel THEN
                [acc EXCEPT !.fixops = @ \o <<gen_assign(fintags, BaseMinus(base, dist))>>]
            ELSE
                [acc EXCEPT !.fixops =
                    @ \o <<gen_assign(<<first>>, base),
                           IfNotEqual(base, NullExpr, <<AssignOp(<<first>>, dist, "stmt")>>)>>
                      \o gen_assign_many_to_first(fintags)]

\* for (size_t t = rule.ltag; t < rule.htag; ++t)
RECURSIVE FinTagLoop(_, _, _)
FinTagLoop(acc, t, htag) ==
    IF t >= htag THEN acc ELSE FinTagLoop(FinTagStep(acc, t), t + 1, htag)

\* variant of gen_fintags that sets yynmatch after the tags
gen_fintags_nmatch_last(rule) ==
    LET ops == FinTagLoop(NoFinOps, rule.ltag, rule.htag)
    IN  ops.varops \o ops.fixops \o ops.trailops
        \o (IF rule.ncap > 0
            THEN <<gen_assign(<<fintag_expr("yynmatch")>>, [num |-> rule.ncap])>>
            ELSE <<>>)
        \o (IF ops.negtag # <<>>
            THEN <<[k |-> "text", text |-> "/* materialize no-match value */"]>>
                 \o <<gen_settag(ops.negtag[1], TRUE, FALSE)>>
                 \o ops.fixpostops
            ELSE <<>>)

\* variant of gen_fintags that shifts before the no-match value is stored
gen_fintags_post_first(rule) ==
    LET ops == FinTagLoop(NoFinOps, rule.ltag, rule.htag)
    IN  (IF rule.ncap > 0
         THEN <<gen_assign(<<fintag_expr("yynmatch")>>, [num |-> rule.ncap])>>
         ELSE <<>>)
        \o ops.varops \o ops.fixops \o ops.trailops
        \o (IF ops.negtag # <<>>
            THEN ops.fixpostops
                 \o <<[k |-> "text", text |-> "/* materialize no-match value */"]>>
                 \o <<gen_settag(ops.negtag[1], TRUE, FALSE)>>
            ELSE <<>>)

gen_fintags(rule) ==
    LET ops == FinTagLoop(NoFinOps, rule.ltag, rule.htag)
    IN  (IF rule.ncap > 0
         THEN <<gen_assign(<<fintag_expr("yynmatch")>>, [num |-> rule.ncap])>>
         ELSE <<>>)
        \o ops.varops \o ops.fixops \o ops.trailops
        \o (IF ops.negtag # <<>>
            THEN <<[k |-> "text", text |-> "/* materialize no-match value */"]>>
                 \o <<gen_settag(ops.negtag[1], TRUE, FALSE)>>
                 \o ops.fixpostops
            ELSE <<>>)

(* ---------------- the semantic action of a rule (emit_rule) ------------ *)
\* the enum element of a condition: cond_enum_prefix + name
gen_cond_enum_elem(name) == [l |-> "cond_enum", name |-> name]

\* variant of gen_cond_set that emits nothing
gen_cond_set_none(cond) == <<>>

gen_cond_set(cond) == <<[k |-> "cond_set", cond |-> cond]>>

fn_name_for_cond(cond) == [l |-> "yyfn", name |-> cond]

\* the action of the skeleton program, generated elsewhere
emit_skeleton_action(rule_idx) == <<[k |-> "skeleton_action", rule |-> rule_idx]>>

\* A SemAct is [cond, autogen, text]: cond is <<>> (none) or <<name>>, text
\* the lines of the user's code.  Rules are numbered from 0.
emit_rule(rule_idx) ==
    LET rule == dfa.rules[rule_idx + 1]
        semact == rule.semact
        cond == IF semact.cond = <<>> THEN dfa.cond ELSE semact.cond[1]
        next_cond == gen_cond_enum_elem(cond)
        next_state == IF dfa.cond = "" \/ opts.code_model # "LOOP_SWITCH"
                      THEN [l |-> "initial_state", name |-> "-1"] ELSE next_cond
    IN  gen_fintags(rule)
        \o (IF opts.target = "SKELETON" THEN emit_skeleton_action(rule_idx)
            ELSE
              (IF opts.storable_state THEN gen_state_set(next_state) ELSE <<>>)
              \o (IF cond # dfa.cond
                     /\ ~(opts.code_model = "LOOP_SWITCH" /\ opts.storable_state)
                  THEN gen_cond_set(next_cond) ELSE <<>>)
              \o (IF ~semact.autogen THEN
                      (IF dfa.setup # "" THEN <<[k |-> "setup", text |-> dfa.setup]>>
                       ELSE <<>>)
                      \o (IF opts.line_dirs THEN <<[k |-> "line_info_input"]>> ELSE <<>>)
                      \o (IF opts.indentation_sensitive
                          THEN [i \in 1 .. Len(semact.text) |->
                                   [k |-> "semact", lines |-> <<semact.text[i]>>]]
                          ELSE <<[k |-> "semact", lines |-> semact.text]>>)
                      \o (IF opts.line_dirs THEN <<[k |-> "line_info_output"]>> ELSE <<>>)
                  ELSE
                      CASE opts.code_model = "GOTO_LABEL" ->
                             <<[k |-> "cond_goto", label |-> [l |-> "cond", name |-> cond]]>>
                        [] opts.code_model = "LOOP_SWITCH" ->
                             gen_continue_yyloop(next_cond)
                        [] opts.code_model = "REC_FUNC" ->
                             <<[k |-> "tailcall", fn |-> fn_name_for_cond(cond),
                                yych |-> FALSE]>>))

InitialLabel == [l |-> "initial", index |-> 0]

\* variant of emit_action that takes the label of an initial state as used
emit_action_used(s) ==
    LET backup == s.save # <<>>
    IN  IF s.kind # "INITIAL" THEN <<>>
        ELSE (IF s.naccepts > 1 /\ backup
              THEN <<[k |-> "assign_accept", save |-> s.save[1]]>> ELSE <<>>)
             \o (IF ~opts.eager_skip THEN <<[k |-> "skip"]>> ELSE <<>>)
             \o <<[k |-> "nlabel", label |-> InitialLabel]>>
             \o gen_fill_and_label(s)
             \o (IF backup THEN <<[k |-> "backup"]>> ELSE <<>>)
             \o gen_peek(s)
             \o gen_debug(InitialLabel.index)

emit_action(s) ==
    CASE s.kind = "MATCH" ->
           (IF ~opts.eager_skip THEN <<[k |-> "skip"]>> ELSE <<>>)
           \o gen_fill_and_label(s)
           \o gen_peek(s)
      [] s.kind = "INITIAL" ->
           LET backup == s.save # <<>>
               ul1 == s.used
           IN  (IF ul1 /\ s.naccepts > 1 /\ backup
                THEN <<[k |-> "assign_accept", save |-> s.save[1]]>> ELSE <<>>)
               \o (IF ul1 /\ ~opts.eager_skip THEN <<[k |-> "skip"]>> ELSE <<>>)
               \o <<[k |-> "nlabel", label |-> InitialLabel]>>
               \o gen_fill_and_label(s)
               \o (IF backup THEN <<[k |-> "backup"]>> ELSE <<>>)
               \o gen_peek(s)
               \o gen_debug(InitialLabel.index)
      [] s.kind = "SAVE" ->
           (IF s.naccepts > 1 THEN <<[k |-> "accept", save |-> s.save[1]]>> ELSE <<>>)
           \o (IF ~opts.eager_skip THEN <<[k |-> "skip"]>> ELSE <<>>)
           \o <<[k |-> "backup"]>>
           \o gen_fill_and_label(s)
           \o gen_peek(s)
      [] s.kind = "MOVE" -> <<>>
      [] s.kind = "ACCEPT" -> emit_accept(s.accepts)
      [] s.kind = "RULE" -> emit_rule(s.rule)

emit_state(s) ==
    IF ~s.used THEN <<>>
    ELSE (IF opts.code_model = "GOTO_LABEL"
          THEN <<[k |-> "nlabel", label |-> StateLabel(s.id)]>> ELSE <<>>)
         \o (IF s.kind # "INITIAL" THEN gen_debug(s.id) ELSE <<>>)

(* ---------------- the inputs of the generator -------------------------- *)
BoolOpts == [fill_enable : BOOLEAN, fill_check : BOOLEAN, storable_state : BOOLEAN,
             eager_skip : BOOLEAN, fill_naked : BOOLEAN]

\* option bundles of the state/transition generator
MainOpts ==
    {[code_model |-> cm, fill_eof |-> fe, var_fill |-> vf, api |-> "DEFAULT",
      api_style |-> "FUNCTIONS",
      fill_enable |-> b.fill_enable, fill_check |-> b.fill_check,
      storable_state |-> b.storable_state, eager_skip |-> b.eager_skip,
      fill_naked |-> b.fill_naked, debug |-> FALSE, computed_gotos |-> FALSE,
      nested_ifs |-> FALSE, computed_gotos_threshold |-> 9] :
        cm \in {"GOTO_LABEL", "LOOP_SWITCH", "REC_FUNC"},
        fe \in {NOEOF, 0}, vf \in {"", "yyfill"}, b \in BoolOpts}

Tcids == 0 .. MaxTcid

\* tag command pool of the state/transition generator: list t saves the
\* cursor to tag t (odd t) or the no-match value (even t)
MainTcpool ==
    [t \in Tcids |->
        IF t = TCID0 THEN <<>>
        ELSE <<[lhs |-> t, rhs |-> TAGVER_ZERO,
                history |-> <<IF t % 2 = 1 THEN 1 ELSE TAGVER_BOTTOM, TAGVER_ZERO>>]>>]

MainDfa == [tcpool |-> MainTcpool, mtagvers |-> {}, oldstyle_ctxmarker |-> FALSE]

\* destination states: a used MATCH state, a MOVE state with two spans, a
\* RULE state, an ACCEPT state and a MATCH state whose label is unused
DestStates ==
    {[id |-> 11, kind |-> "MATCH", used |-> TRUE, go |-> [span |-> <<"MATCH", "MATCH">>]],
     [id |-> 12, kind |-> "MOVE", used |-> TRUE, go |-> [span |-> <<"MATCH", "RULE">>]],
     [id |-> 13, kind |-> "RULE", used |-> TRUE, go |-> [span |-> <<"MATCH">>]],
     [id |-> 14, kind |-> "ACCEPT", used |-> TRUE, go |-> [span |-> <<"MATCH">>]],
     [id |-> 15, kind |-> "MATCH", used |-> FALSE, go |-> [span |-> <<"MATCH", "RULE">>]]}

Dest(i) == CHOOSE d \in DestStates : d.id = i

Jump(to, tags, skip, elide, eof) ==
    [to |-> to, tags |-> tags, skip |-> skip, elide |-> elide, eof |-> eof]

\* jumps out of a state whose hoisted tags are gtags: hoisting leaves no
\* tags on the transitions
Jumps(tos, gtags, eofs) ==
    {Jump(d, t, sk, el, e) :
        d \in tos, t \in (IF gtags # TCID0 THEN {TCID0} ELSE Tcids),
        sk \in BOOLEAN, el \in BOOLEAN, e \in eofs}

Kinds(jumps) == [i \in 1 .. Len(jumps) |-> jumps[i].to.kind]

\* a switch / if dispatch over the given jumps, one span per jump
GoIf(kind, tags, skip, jumps, defcase) ==
    [kind |-> kind, tags |-> tags, skip |-> skip, jumps |-> jumps,
     conds |-> [i \in 1 .. Len(jumps) |-> i], defcase |-> defcase,
     hjumps |-> <<>>, bm |-> NULL, span |-> Kinds(jumps)]

\* a bitmap / computed-goto dispatch
GoTable(kind, tags, skip, bm, hjumps, jumps) ==
    [kind |-> kind, tags |-> tags, skip |-> skip, jumps |-> jumps,
     conds |-> [i \in 1 .. Len(jumps) + Len(hjumps) |-> i], defcase |-> 1,
     hjumps |-> hjumps, bm |-> bm,
     span |-> <<"MATCH", "MATCH">> \o Kinds(hjumps) \o Kinds(jumps)]

\* a state; the tags of the fallback transition of a state with hoisted
\* tags are the hoisted tags; sv is <<>> (no save slot) or <<slot>>
MkState(id, kind, used, go, fill, flabel, fallback, falltags, sv, naccepts, accepts) ==
    [id |-> id, kind |-> kind, used |-> used, go |-> go,
     fill |-> fill, fill_label |-> flabel,
     fill_state |-> [id |-> id, fill_label |-> 1],
     fallback |-> fallback, falltags |-> falltags,
     save |-> sv, naccepts |-> naccepts, accepts |-> accepts]

\* the states given to the fill functions: the transition j wrapped in the
\* fill and one more span (a fill is wrapped around a transition only in a
\* state that is not an end state), fill label 1
FillState(gt, fb, ft, j) ==
    MkState(1, "MATCH", TRUE,
            GoIf("IFL", gt, FALSE, <<j, Jump(Dest(11), TCID0, FALSE, FALSE, FALSE)>>, 2),
            2, <<1>>, fb, ft, <<>>, 1, <<>>)

\* (state, jump) arguments of gen_goto
GotoArgs ==
    UNION {{<<FillState(gt, fb, ft, j), j>> :
                fb \in {Dest(11), Dest(13)},
                ft \in (IF gt # TCID0 THEN {gt} ELSE Tcids),
                j \in Jumps({Dest(11), Dest(13), Dest(15)}, gt, BOOLEAN)} :
           gt \in {TCID0, 1}}

\* (state, jump) arguments of gen_fill_falllback and gen_goto_after_fill:
\* the jump is the one wrapped by the fill, or none
FallbackArgs ==
    {a \in GotoArgs : a[2].eof /\ ~a[2].elide}
    \cup {<<a[1], NULL>> : a \in {b \in GotoArgs : b[2].eof /\ ~b[2].elide}}

\* transitions of the states given to emit_action and gen_go: one or two
\* jumps; a jump is wrapped in a fill (eof) only in a state that is not an
\* end state
EmitJumpLists(gt) ==
    LET tags == IF gt # TCID0 THEN {TCID0} ELSE {TCID0, 1}
    IN  {<<Jump(d, tg, FALSE, FALSE, e)>> :
            d \in {Dest(11), Dest(12)}, tg \in tags, e \in BOOLEAN}
        \cup {<<Jump(Dest(13), tg, FALSE, FALSE, FALSE)>> : tg \in tags}
        \cup {<<Jump(Dest(11), tg, FALSE, FALSE, e), j2>> :
                tg \in tags, e \in BOOLEAN,
                j2 \in {Jump(Dest(12), TCID0, TRUE, FALSE, FALSE),
                        Jump(Dest(15), TCID0, FALSE, TRUE, FALSE)}}

\* the states given to emit_state / emit_action / gen_go
EmitStates ==
    UNION {
        \* states that consume a character, linear-if dispatch
        {MkState(2, kind, TRUE, GoIf("IFL", gt, gs, js, Len(js)), f, fl,
                 Dest(13), gt, sv, na, <<>>) :
            kind \in {"MATCH", "SAVE", "INITIAL"}, js \in EmitJumpLists(gt),
            gs \in {FALSE}, f \in {0, 2}, fl \in {<<>>, <<1>>},
            sv \in {<<0>>}, na \in {1, 2}}
        \cup
        {MkState(2, "INITIAL", u, GoIf("IFL", gt, FALSE, js, Len(js)), 2, <<1>>,
                 Dest(13), gt, sv, 2, <<>>) :
            u \in BOOLEAN, sv \in {<<>>, <<0>>},
            js \in {l \in EmitJumpLists(gt) : Len(l) = 1}}
        \cup
        \* other forms of dispatch
        {MkState(3, "MATCH", u, GoIf(gk, gt, gs, js, 1), 2, <<1>>,
                 Dest(13), gt, <<>>, 1, <<>>) :
            u \in BOOLEAN, gk \in {"SWITCH", "IFB"}, gs \in BOOLEAN,
            js \in {l \in EmitJumpLists(gt) : Len(l) = 2}}
        \cup
        {MkState(3, "MATCH", TRUE, GoTable(gk, gt, FALSE, Dest(11), hj, js), 2, <<1>>,
                 Dest(13), gt, <<>>, 1, <<>>) :
            gk \in {"BITMAP", "CPGOTO"},
            hj \in {<<>>, <<Jump(Dest(11), TCID0, FALSE, FALSE, FALSE)>>},
            js \in {<<>>, <<Jump(Dest(12), TCID0, FALSE, FALSE, FALSE)>>}}
      : gt \in {TCID0, 1}}
    \cup
    \* states that do not consume a character have no hoisted tags
    {MkState(4, "MOVE", u, GoIf("IFL", TCID0, FALSE, js, Len(js)), 0, <<>>,
             Dest(13), TCID0, <<>>, 1, <<>>) :
        u \in BOOLEAN, js \in EmitJumpLists(TCID0)}
    \cup
    {MkState(5, "ACCEPT", TRUE,
             GoIf("IFL", TCID0, FALSE, <<Jump(Dest(11), TCID0, FALSE, FALSE, FALSE)>>, 1),
             0, <<>>, Dest(13), TCID0, <<>>, na, SubSeq(acc, 1, na)) :
        na \in 0 .. 3,
        acc \in {<<[state |-> Dest(13), tags |-> t1], [state |-> Dest(11), tags |-> TCID0],
                   [state |-> Dest(15), tags |-> t3]>> : t1 \in {TCID0, 1}, t3 \in {TCID0, 1}}}

(* ---------------- the generator as a state machine --------------------- *)
Init ==
    /\ opts \in MainOpts
    /\ dfa = MainDfa
    /\ op = "init"
    /\ from = NULL
    /\ jump = NULL
    /\ code = <<>>
    /\ output = NULL
    /\ ret = "OK"
    /\ pc = NULL

GenFillFallback ==
    /\ op = "init"
    /\ opts.fill_eof # NOEOF
    /\ \E a \in FallbackArgs :
        /\ op' = "gen_fill_falllback"
        /\ from' = a[1]
        /\ jump' = a[2]
        /\ code' = gen_fill_falllback(a[1], a[2])
    /\ UNCHANGED <<opts, dfa, output, ret, pc>>

GenGoto ==
    /\ op = "init"
    /\ \E a \in GotoArgs :
        /\ a[2].eof => opts.fill_eof # NOEOF
        /\ op' = "gen_goto"
        /\ from' = a[1]
        /\ jump' = a[2]
        /\ code' = gen_goto(a[1], a[2])
    /\ UNCHANGED <<opts, dfa, output, ret, pc>>

\* the state dispatch holds, for each state with a fill label, the code that
\* resumes the state after YYFILL; the dispatch is built per state, there is
\* no transition (jump) at that place
GenGotoAfterFill ==
    /\ op = "init"
    /\ opts.fill_enable
    /\ \E a \in {b \in FallbackArgs : b[2] = NULL} :
        /\ op' = "gen_goto_after_fill"
        /\ from' = a[1]
        /\ jump' = NULL
        /\ code' = gen_goto_after_fill(a[1], NULL)
    /\ UNCHANGED <<opts, dfa, output, ret, pc>>

\* one iteration of the loop over the states of a DFA: emit_state,
\* emit_action and gen_go append the code of the state
EmitState ==
    /\ op = "init"
    /\ \E s \in EmitStates :
        /\ (\E i \in 1 .. Len(s.go.jumps) : s.go.jumps[i].eof) => opts.fill_eof # NOEOF
        /\ op' = "emit_state"
        /\ from' = s
        /\ jump' = NULL
        /\ code' = emit_state(s) \o emit_action(s) \o gen_go(s.go, s)
    /\ UNCHANGED <<opts, dfa, output, ret, pc>>

Next == GenFillFallback \/ GenGoto \/ GenGotoAfterFill \/ EmitState

Spec == Init /\ [][Next]_vars

(* ---------------- the entry code of the initial state ------------------- *)
\* option bundles for the initial state: with and without the debug hook
EntryOpts ==
    {[code_model |-> cm, fill_eof |-> fe, var_fill |-> "", api |-> "DEFAULT",
      api_style |-> "FUNCTIONS", fill_enable |-> fl, fill_check |-> FALSE,
      storable_state |-> ss, eager_skip |-> es, fill_naked |-> FALSE, debug |-> d,
      computed_gotos |-> FALSE, nested_ifs |-> FALSE, computed_gotos_threshold |-> 9] :
        cm \in {"GOTO_LABEL", "LOOP_SWITCH", "REC_FUNC"}, fe \in {NOEOF, 0},
        fl \in BOOLEAN, ss \in BOOLEAN, es \in BOOLEAN, d \in BOOLEAN}

\* initial states: label used or not, with or without a save slot, in a DFA
\* of one or two accept values
InitialStates ==
    UNION {
        {MkState(2, "INITIAL", u, GoIf("IFL", gt, FALSE, js, Len(js)), f, fl,
                 Dest(13), gt, sv, na, <<>>) :
            u \in BOOLEAN, js \in EmitJumpLists(gt), f \in {0, 2}, fl \in {<<>>, <<1>>},
            sv \in {<<>>, <<0>>}, na \in {1, 2}}
      : gt \in {TCID0, 1}}

InitEntry ==
    /\ opts \in EntryOpts
    /\ dfa = MainDfa
    /\ op = "init"
    /\ from = NULL
    /\ jump = NULL
    /\ code = <<>>
    /\ output = NULL
    /\ ret = "OK"
    /\ pc = NULL

\* the loop body of gen_dfa_as_blocks_with_labels (and of its loop/switch
\* and rec/func counterparts) on the initial state
EmitInitial ==
    /\ op = "init"
    /\ \E s \in InitialStates :
        /\ (\E i \in 1 .. Len(s.go.jumps) : s.go.jumps[i].eof) => opts.fill_eof # NOEOF
        /\ op' = "emit_initial"
        /\ from' = s
        /\ code' = emit_state(s) \o emit_action(s) \o gen_go(s.go, s)
    /\ UNCHANGED <<opts, dfa, jump, output, ret, pc>>

NextEntry == EmitInitial

SpecEntry == InitEntry /\ [][NextEntry]_vars

(* ---------------- the tag action generator as a state machine ---------- *)
\* option bundles of gen_settags: the API and the API style
TagOpts ==
    {[code_model |-> "GOTO_LABEL", fill_eof |-> NOEOF, var_fill |-> "", api |-> a,
      api_style |-> st, fill_enable |-> FALSE, fill_check |-> FALSE,
      storable_state |-> FALSE, eager_skip |-> FALSE, fill_naked |-> FALSE,
      debug |-> FALSE, computed_gotos |-> FALSE, nested_ifs |-> FALSE,
      computed_gotos_threshold |-> 9] :
        a \in {"DEFAULT", "CUSTOM"}, st \in {"FUNCTIONS", "FREEFORM"}}

\* "save" commands on the s-tags 1 and 2, positive or negative
SaveCmds ==
    {[lhs |-> l, rhs |-> TAGVER_ZERO, history |-> <<h, TAGVER_ZERO>>] :
        l \in {1, 2}, h \in {1, TAGVER_BOTTOM}}

CopyCmds == {[lhs |-> 1, rhs |-> 2, history |-> <<TAGVER_ZERO>>]}

\* "save with history" commands on the m-tag 3: onto itself or onto tag 4
AddCmds ==
    {[lhs |-> 3, rhs |-> r, history |-> Append(h, TAGVER_ZERO)] :
        r \in {3, 4}, h \in SeqsUpTo({1, TAGVER_BOTTOM}, MaxHist) \ {<<>>}}

\* command lists: saves and copies in any order, and lists with one
\* save-with-history command between other commands
TagCmdLists ==
    SeqsUpTo(SaveCmds \cup CopyCmds, MaxCmds)
    \cup {pre \o <<a>> \o suf :
            pre \in SeqsUpTo(SaveCmds \cup CopyCmds, 1),
            suf \in SeqsUpTo(SaveCmds \cup CopyCmds, 1), a \in AddCmds}

TagDfa(cmds, oldstyle) ==
    [tcpool |-> [t \in Tcids |-> IF t = 1 THEN cmds ELSE <<>>],
     mtagvers |-> {3, 4}, oldstyle_ctxmarker |-> oldstyle]

\* the old-style context marker is used with a single tag only
TagDfas ==
    {TagDfa(l, FALSE) : l \in TagCmdLists}
    \cup {TagDfa(<<c>>, TRUE) : c \in {d \in SaveCmds : d.history[1] # TAGVER_BOTTOM}}

InitTags ==
    /\ opts \in TagOpts
    /\ dfa \in TagDfas
    /\ op = "init"
    /\ from = NULL
    /\ jump = NULL
    /\ code = <<>>
    /\ output = NULL
    /\ ret = "OK"
    /\ pc = NULL

GenSettags ==
    /\ op = "init"
    /\ op' = "gen_settags"
    /\ code' = gen_settags(1)
    /\ UNCHANGED <<opts, dfa, from, jump, output, ret, pc>>

NextTags == GenSettags

SpecTags == InitTags /\ [][NextTags]_vars

(* ---------------- the rule emitter as a state machine ------------------ *)
RuleOpt(a, st, cm, tg, ss, ld, ind) ==
    [code_model |-> cm, fill_eof |-> NOEOF, var_fill |-> "", api |-> a,
     api_style |-> st, fill_enable |-> FALSE, fill_check |-> FALSE,
     storable_state |-> ss, eager_skip |-> FALSE, fill_naked |-> FALSE,
     debug |-> FALSE, computed_gotos |-> FALSE, nested_ifs |-> FALSE,
     computed_gotos_threshold |-> 9, target |-> tg, line_dirs |-> ld,
     indentation_sensitive |-> ind]

\* option bundles for the final tags: the API and its style
FinOpts ==
    {RuleOpt(a, st, "GOTO_LABEL", "CODE", FALSE, FALSE, FALSE) :
        a \in {"DEFAULT", "CUSTOM"}, st \in {"FUNCTIONS", "FREEFORM"}}

\* option bundles for the rest of emit_rule
EmitOpts ==
    {RuleOpt(a, "FUNCTIONS", cm, tg, ss, ld, ind) :
        a \in {"DEFAULT", "CUSTOM"},
        cm \in {"GOTO_LABEL", "LOOP_SWITCH", "REC_FUNC"},
        tg \in {"CODE", "SKELETON"}, ss \in BOOLEAN, ld \in BOOLEAN, ind \in BOOLEAN}

Tag(kind, tr, hist, fix, dist, base, top, lsub, hsub, name) ==
    [kind |-> kind, trailing |-> tr, history |-> hist, fixed |-> fix, dist |-> dist,
     base |-> base, toplevel |-> top, lsub |-> lsub, hsub |-> hsub, name |-> name]

\* the variable tags a and b, tags 0 and 1 of every rule, on which the fixed
\* tags of the rule are based
BaseTags ==
    <<Tag("named", FALSE, FALSE, FALSE, 0, RIGHTMOST, TRUE, 0, 0, "a"),
      Tag("named", FALSE, FALSE, FALSE, 0, RIGHTMOST, TRUE, 0, 0, "b")>>

\* variable tags: trailing context, a named m-tag, a capture of two groups
VarTags ==
    {Tag("named", TRUE, FALSE, FALSE, 0, RIGHTMOST, TRUE, 0, 0, ""),
     Tag("named", FALSE, TRUE, FALSE, 0, RIGHTMOST, TRUE, 0, 0, "m"),
     Tag("capture", FALSE, FALSE, FALSE, 0, RIGHTMOST, TRUE, 0, 2, "")}

\* fixed tags have no history; a trailing fixed tag is toplevel
FixedTags ==
    {Tag("named", TRUE, FALSE, TRUE, d, b, TRUE, 0, 0, "") :
        d \in {0, 2}, b \in {RIGHTMOST, 0}}
    \cup {Tag("named", FALSE, FALSE, TRUE, d, b, top, 0, 0, "t") :
            d \in {0, 2}, b \in {RIGHTMOST, 1}, top \in BOOLEAN}
    \cup {Tag("capture", FALSE, FALSE, TRUE, d, b, top, 4, 6, "") :
            d \in {0, 2}, b \in {RIGHTMOST, 0}, top \in BOOLEAN}

ExtraTags ==
    {Tag("fictive", FALSE, FALSE, FALSE, 0, RIGHTMOST, FALSE, 0, 0, "")}
    \cup VarTags \cup FixedTags

SemAct(cond, autogen) == [cond |-> cond, autogen |-> autogen, text |-> <<"x", "y">>]

\* a DFA with one rule over all of its tags
RuleDfa(tags, ncap, semact, cond, setup, oldstyle) ==
    [tags |-> tags, finvers |-> [i \in 1 .. Len(tags) |-> i],
     rules |-> <<[ltag |-> 0, htag |-> Len(tags), ncap |-> ncap, semact |-> semact]>>,
     cond |-> cond, setup |-> setup, oldstyle_ctxmarker |-> oldstyle]

\* the rules given to gen_fintags: every list of tags after the base tags
FinDfas ==
    {RuleDfa(BaseTags \o l, n, SemAct(<<>>, FALSE), "", "", FALSE) :
        l \in SeqsUpTo(ExtraTags, MaxTags), n \in {0, 2}}

\* the rules given to emit_rule: the old-style context marker goes with a
\* single trailing tag; an autogenerated action names its next condition
EmitDfas ==
    {RuleDfa(BaseTags \o l, n, sa, c, su, FALSE) :
        l \in {<<>>, <<Tag("capture", FALSE, FALSE, FALSE, 0, RIGHTMOST, TRUE, 0, 2, "")>>},
        n \in {0, 2},
        sa \in {SemAct(<<>>, FALSE), SemAct(<<"c1">>, FALSE), SemAct(<<"c2">>, FALSE),
                SemAct(<<"c2">>, TRUE)},
        c \in {"", "c1"}, su \in {"", "setup"}}
    \cup {RuleDfa(<<Tag("named", TRUE, FALSE, FALSE, 0, RIGHTMOST, TRUE, 0, 0, "")>>,
                  0, SemAct(<<>>, FALSE), "", "", TRUE)}

RuleInputs == (FinOpts \X FinDfas) \cup (EmitOpts \X EmitDfas)

\* the RULE state of rule 0
RuleState ==
    [id |-> 13, kind |-> "RULE", used |-> TRUE, go |-> [span |-> <<>>], rule |-> 0]

InitRule ==
    /\ \E x \in RuleInputs : opts = x[1] /\ dfa = x[2]
    /\ op = "init"
    /\ from = NULL
    /\ jump = NULL
    /\ code = <<>>
    /\ output = NULL
    /\ ret = "OK"
    /\ pc = NULL

\* emit_action on the RULE state: emit_rule
EmitRule ==
    /\ op = "init"
    /\ op' = "emit_rule"
    /\ from' = RuleState
    /\ code' = emit_action(RuleState)
    /\ UNCHANGED <<opts, dfa, jump, output, ret, pc>>

NextRule == EmitRule

SpecRule == InitRule /\ [][NextRule]_vars

\* ------------------------------------------------------------------
\* blocks: condition dispatch, yystate, types:re2c and getstate:re2c
\* ------------------------------------------------------------------

\* the list of blocks the current block belongs to (*output.pblocks)
pblocks == IF output.pblocks = "hblocks" THEN output.hblocks ELSE output.cblocks

\* output.block(): the block being generated
block == pblocks[output.cur]

output_cond_get == "YYGETCONDITION"

output_state_get == "YYGETSTATE"

gen_abort == <<[k |-> "abort"]>>

\* the label of a condition: cond_label_prefix followed by its name
CondLabel(name) == [l |-> "cond", name |-> name]

\* variant of the binary dispatch whose test includes the middle condition
RECURSIVE gen_cond_goto_binary_le(_, _)
gen_cond_goto_binary_le(lower, upper) ==
    IF lower = upper
    THEN <<[k |-> "goto", label |-> CondLabel(block.conds[lower + 1].name)]>>
    ELSE LET middle == lower + (upper - lower + 1) \div 2
         IN  <<[k |-> "if",
                cond |-> [c |-> "lt", lhs |-> output_cond_get, rhs |-> middle + 1],
                then |-> gen_cond_goto_binary_le(lower, middle - 1),
                has_else |-> TRUE,
                else |-> gen_cond_goto_binary_le(middle, upper)]>>

\* nested ifs on the condition: conditions lower .. upper of the block
RECURSIVE gen_cond_goto_binary(_, _)
gen_cond_goto_binary(lower, upper) ==
    IF lower = upper
    THEN <<[k |-> "goto", label |-> CondLabel(block.conds[lower + 1].name)]>>
    ELSE LET middle == lower + (upper - lower + 1) \div 2
         IN  <<[k |-> "if",
                cond |-> [c |-> "lt", lhs |-> output_cond_get, rhs |-> middle],
                then |-> gen_cond_goto_binary(lower, middle - 1),
                has_else |-> TRUE,
                else |-> gen_cond_goto_binary(middle, upper)]>>

\* the switch of gen_cond_goto: one case per condition name
CondSwitch ==
    [k |-> "switch", expr |-> output_cond_get,
     cases |-> [i \in 1 .. Len(block.conds) |->
                  [default |-> FALSE, str |-> gen_cond_enum_elem(block.conds[i].name),
                   body |-> <<[k |-> "goto", label |-> CondLabel(block.conds[i].name)]>>]]
               \o (IF opts.cond_abort
                   THEN <<[default |-> TRUE, body |-> gen_abort]>>
                   ELSE <<>>)]

\* gen_cond_goto: the dispatch on the condition at the start of a block
gen_cond_goto ==
    LET ncond == Len(block.conds)
    IN  IF opts.target = "DOT"
        THEN [i \in 1 .. ncond |-> [k |-> "dot_edge", name |-> block.conds[i].name]]
        ELSE IF opts.computed_gotos
        THEN <<[k |-> "goto", label |-> [l |-> "cond_table", index |-> output_cond_get]]>>
        ELSE IF opts.nested_ifs
        THEN gen_cond_goto_binary(0, ncond - 1)
        ELSE <<CondSwitch>>

\* variant of the warning test that does not count the conditions
warn_cond_ord_any ==
    /\ opts.target # "DOT"
    /\ output.warn_condition_order
    /\ opts.computed_gotos \/ opts.nested_ifs
    /\ opts.header_file = ""

\* gen_cond_goto: whether the condition-order warning is issued
warn_cond_ord ==
    /\ opts.target # "DOT"
    /\ output.warn_condition_order
    /\ IF opts.computed_gotos THEN TRUE
       ELSE IF opts.nested_ifs THEN Len(block.conds) > 1
       ELSE FALSE
    /\ opts.header_file = ""

\* variant of gen_yystate_def in which the condition getter takes priority
gen_yystate_def_cond_first ==
    IF opts.start_conditions
    THEN [k |-> "var", type |-> "UINT", name |-> "yystate", init |-> output_cond_get]
    ELSE IF opts.storable_state
    THEN [k |-> "var", type |-> "INT", name |-> "yystate", init |-> output_state_get]
    ELSE [k |-> "var", type |-> "UINT", name |-> "yystate", init |-> "0"]

\* gen_yystate_def: the declaration of yystate in loop/switch mode
gen_yystate_def ==
    IF opts.storable_state
    THEN [k |-> "var", type |-> "INT", name |-> "yystate", init |-> output_state_get]
    ELSE IF opts.start_conditions
    THEN [k |-> "var", type |-> "UINT", name |-> "yystate", init |-> output_cond_get]
    ELSE [k |-> "var", type |-> "UINT", name |-> "yystate", init |-> "0"]

\* a start condition of a block (StartCond)
StartCond(name, number) == [name |-> name, number |-> number]

\* a string that may be absent (const char*, NULL if nullptr)
Str(s) == [str |-> s]

\* the result of a gathering step: a status and the list gathered so far
Gathered(r, l) == [ret |-> r, list |-> l]

\* find_block_with_name: the first block with the name, code blocks first
find_block_with_name(name) ==
    LET all == output.cblocks \o output.hblocks
        hits == {i \in 1 .. Len(all) : all[i].name = name}
    IN  IF hits = {} THEN NULL
        ELSE all[CHOOSE i \in hits : \A j \in hits : i <= j]

\* find_blocks: the blocks of a name list, or a failure at the first name
\* that no block has
RECURSIVE find_blocks(_)
find_blocks(names) ==
    IF names = <<>> THEN Gathered("OK", <<>>)
    ELSE LET b == find_block_with_name(Head(names))
             rest == find_blocks(Tail(names))
         IN  IF b = NULL THEN Gathered("FAIL", <<>>)
             ELSE IF rest.ret = "FAIL" THEN rest
             ELSE Gathered("OK", <<b>> \o rest.list)

\* variant of add_condition_from_block that compares names only
add_condition_from_block_byname(b, l, cond0) ==
    LET cond == StartCond(b.opts.cond_enum_prefix \o cond0.name, cond0.number)
    IN  IF \E i \in 1 .. Len(l) : l[i].name = cond.name
        THEN Gathered("OK", l)
        ELSE Gathered("OK", Append(l, cond))

\* add_condition_from_block: add the condition of block b, qualified by the
\* prefix of b, to the list l unless it is there already
add_condition_from_block(b, l, cond0) ==
    LET cond == StartCond(b.opts.cond_enum_prefix \o cond0.name, cond0.number)
        same == {i \in 1 .. Len(l) : l[i].name = cond.name}
    IN  IF same = {} THEN Gathered("OK", Append(l, cond))
        ELSE LET c == l[CHOOSE i \in same : \A j \in same : i <= j]
             IN  IF c.number = cond.number
                 THEN Gathered("OK", l)
                 ELSE Gathered("FAIL", l)

\* the conditions of one block, from the n-th on
RECURSIVE AddBlockConds(_, _, _)
AddBlockConds(b, l, n) ==
    IF n > Len(b.conds) THEN Gathered("OK", l)
    ELSE LET r == add_condition_from_block(b, l, b.conds[n])
         IN  IF r.ret = "FAIL" THEN r ELSE AddBlockConds(b, r.list, n + 1)

\* add_conditions_from_blocks: stops at the first failure
RECURSIVE add_conditions_from_blocks(_, _)
add_conditions_from_blocks(blocks, l) ==
    IF blocks = <<>> THEN Gathered("OK", l)
    ELSE LET r == AddBlockConds(Head(blocks), l, 1)
         IN  IF r.ret = "FAIL" THEN r
             ELSE add_conditions_from_blocks(Tail(blocks), r.list)

\* the number of the i-th condition of the list l as the generated code
\* sees it: its position in goto/label mode, its own number otherwise
cid(o, l, i) == IF o.code_model = "GOTO_LABEL" THEN i - 1 ELSE l[i].number

\* variant of gen_cond_enum that numbers the members in every code model
gen_cond_enum_numbered(item, o, l) ==
    IF l = <<>> THEN item
    ELSE [k |-> "ENUM", name |-> "YYCONDTYPE",
          ids |-> [i \in 1 .. Len(l) |-> l[i].name],
          nums |-> [i \in 1 .. Len(l) |-> l[i].number]]

\* gen_cond_enum: the formatted text or the enum of the conditions l; the
\* enum has the numbers of its members or none (an empty list)
gen_cond_enum(item, o, l) ==
    IF l = <<>> THEN item
    ELSE IF item.format # NULL
    THEN [k |-> "RAW",
          data |-> [i \in 1 .. Len(l) |->
                      [sep |-> IF i > 1 THEN item.separator ELSE NULL,
                       fmt |-> item.format,
                       num |-> cid(o, l, i),
                       cond |-> l[i].name]]]
    ELSE [k |-> "ENUM", name |-> "YYCONDTYPE",
          ids |-> [i \in 1 .. Len(l) |-> l[i].name],
          nums |-> IF o.code_model # "GOTO_LABEL"
                   THEN [i \in 1 .. Len(l) |-> l[i].number]
                   ELSE <<>>]

\* expand_cond_enum: types:re2c, under the options of the whole file
expand_cond_enum(item) ==
    LET globopts == output.total_opts
        found == find_blocks(item.block_names)
        r == IF item.block_names = <<>>
             THEN LET rc == add_conditions_from_blocks(output.cblocks, <<>>)
                  IN  IF rc.ret = "FAIL" THEN rc
                      ELSE add_conditions_from_blocks(output.hblocks, rc.list)
             ELSE IF found.ret = "FAIL" THEN found
             ELSE add_conditions_from_blocks(found.list, <<>>)
    IN  IF globopts.target # "CODE" THEN [ret |-> "OK", code |-> [k |-> "EMPTY"]]
        ELSE IF r.ret = "FAIL" THEN [ret |-> "FAIL", code |-> item]
        ELSE IF r.list = <<>> THEN [ret |-> "OK", code |-> [k |-> "EMPTY"]]
        ELSE [ret |-> "OK", code |-> gen_cond_enum(item, globopts, r.list)]

\* gen_state_goto_cases: the fill-goto cases of a block
gen_state_goto_cases(b) ==
    [i \in 1 .. Len(b.fill_goto) |->
        [default |-> FALSE, number |-> b.fill_goto[i].state, body |-> b.fill_goto[i].code]]

\* the cases of a list of blocks, in order
RECURSIVE StateGotoCases(_)
StateGotoCases(blocks) ==
    IF blocks = <<>> THEN <<>>
    ELSE gen_state_goto_cases(Head(blocks)) \o StateGotoCases(Tail(blocks))

\* the numeric start label of a block, under the label prefix of the block
StartLabel(b) == [l |-> "start", prefix |-> b.opts.label_prefix, index |-> b.start_label.index]

\* the blocks of a getstate:re2c directive: all blocks of the current list
\* but the use blocks if it is global, the listed blocks otherwise
StateGotoBlocks(item) ==
    IF item.block_names = <<>>
    THEN Gathered("OK", SelectSeq(pblocks, LAMBDA b : b.kind # "USE"))
    ELSE find_blocks(item.block_names)

\* the block whose start label the switch jumps to (bstart), NULL if none
StateGotoStart(item) ==
    LET bs == StateGotoBlocks(item).list
        gen == {i \in 1 .. Len(bs) : bs[i].start_label # NULL}
    IN  IF item.block_names = <<>>
        THEN IF gen = {} THEN NULL ELSE bs[CHOOSE i \in gen : \A j \in gen : i <= j]
        ELSE IF bs = <<>> THEN NULL ELSE bs[1]

\* the jump to the start label of block b
goto_start(b, code_model) ==
    CASE code_model = "GOTO_LABEL" -> <<[k |-> "goto", label |-> StartLabel(b)]>>
      [] code_model = "REC_FUNC" ->
            <<[k |-> "tailcall", fn |-> StartLabel(b), yych |-> FALSE]>>
      [] code_model = "LOOP_SWITCH" -> <<>>

\* the blocks of the file with the start label of the block named name
\* marked as used (the label is shared by every reference to the block)
MarkUsed(blocks, b) ==
    [i \in 1 .. Len(blocks) |->
        IF blocks[i] = b THEN [blocks[i] EXCEPT !.start_label.used = TRUE] ELSE blocks[i]]

\* variant of gen_state_goto that takes the abort option from the whole file
gen_state_goto_abort(item) ==
    LET target == output.total_opts.target
        code_model == output.total_opts.code_model
        global == item.block_names = <<>>
        found == StateGotoBlocks(item)
        bstart == StateGotoStart(item)
        o == output.total_opts
        cases == StateGotoCases(found.list)
        start == goto_start(bstart, code_model)
        stmts ==
            <<[k |-> "switch", expr |-> output_state_get,
               cases |-> IF o.state_abort
                         THEN <<[default |-> FALSE, number |-> -1, body |-> start]>>
                              \o cases \o <<[default |-> TRUE, body |-> gen_abort]>>
                         ELSE cases \o <<[default |-> TRUE, body |-> start]>>]>>
            \o (IF o.state_next THEN <<[k |-> "textraw", text |-> "yyNext:"]>> ELSE <<>>)
    IN  IF target # "CODE" THEN [ret |-> "OK", code |-> [k |-> "EMPTY"], output |-> output]
        ELSE IF found.ret = "FAIL" THEN [ret |-> "FAIL", code |-> item, output |-> output]
        ELSE IF bstart = NULL THEN [ret |-> "FAIL", code |-> item, output |-> output]
        ELSE IF \E i \in 1 .. Len(found.list) : ~global /\ found.list[i].start_label = NULL
        THEN [ret |-> "FAIL", code |-> item, output |-> output]
        ELSE [ret |-> "OK",
              code |-> IF code_model = "REC_FUNC"
                       THEN [k |-> "FNDEF",
                             name |-> IF global THEN output.fn_common ELSE bstart.fn_common,
                             stmts |-> stmts]
                       ELSE [k |-> "BLOCK", stmts |-> stmts],
              output |-> [output EXCEPT !.cblocks = MarkUsed(@, bstart),
                                        !.hblocks = MarkUsed(@, bstart)]]

\* gen_state_goto: getstate:re2c, the switch on the stored state
gen_state_goto(item) ==
    LET target == output.total_opts.target
        code_model == output.total_opts.code_model
        global == item.block_names = <<>>
        found == StateGotoBlocks(item)
        bstart == StateGotoStart(item)
        o == IF global THEN output.total_opts ELSE bstart.opts
        cases == StateGotoCases(found.list)
        start == goto_start(bstart, code_model)
        stmts ==
            <<[k |-> "switch", expr |-> output_state_get,
               cases |-> IF o.state_abort
                         THEN <<[default |-> FALSE, number |-> -1, body |-> start]>>
                              \o cases \o <<[default |-> TRUE, body |-> gen_abort]>>
                         ELSE cases \o <<[default |-> TRUE, body |-> start]>>]>>
            \o (IF o.state_next THEN <<[k |-> "textraw", text |-> "yyNext:"]>> ELSE <<>>)
    IN  IF target # "CODE" THEN [ret |-> "OK", code |-> [k |-> "EMPTY"], output |-> output]
        ELSE IF found.ret = "FAIL" THEN [ret |-> "FAIL", code |-> item, output |-> output]
        ELSE IF bstart = NULL THEN [ret |-> "FAIL", code |-> item, output |-> output]
        ELSE IF \E i \in 1 .. Len(found.list) : ~global /\ found.list[i].start_label = NULL
        THEN [ret |-> "FAIL", code |-> item, output |-> output]
        ELSE [ret |-> "OK",
              code |-> IF code_model = "REC_FUNC"
                       THEN [k |-> "FNDEF",
                             name |-> IF global THEN output.fn_common ELSE bstart.fn_common,
                             stmts |-> stmts]
                       ELSE [k |-> "BLOCK", stmts |-> stmts],
              output |-> [output EXCEPT !.cblocks = MarkUsed(@, bstart),
                                        !.hblocks = MarkUsed(@, bstart)]]

\* ------------------------------------------------------------------
\* blocks and directives as a state machine
\* ------------------------------------------------------------------

\* the options read by the block assembler
BlockOpt(cm, tg, ss, sc, ni, cg, ca, sa, sn, cep, lp, hf) ==
    [code_model |-> cm, target |-> tg, storable_state |-> ss, start_conditions |-> sc,
     nested_ifs |-> ni, computed_gotos |-> cg, cond_abort |-> ca, state_abort |-> sa,
     state_next |-> sn, cond_enum_prefix |-> cep, label_prefix |-> lp, header_file |-> hf]

\* a block of the output (OutputBlock); loc is its place in the source file
OutputBlock(name, loc, kind, o, cl, fg, sl) ==
    [name |-> name, loc |-> loc, kind |-> kind, opts |-> o, conds |-> cl,
     fill_goto |-> fg, start_label |-> sl, fn_common |-> <<"fn", name>>,
     dfas |-> <<>>, code |-> <<>>]

Label(index) == [index |-> index, used |-> FALSE]

\* the output with the block cur of the list pb as the current block
Output(cb, hb, pb, cur, total, warn) ==
    [cblocks |-> cb, hblocks |-> hb, pblocks |-> pb, cur |-> cur, total_opts |-> total,
     warn_condition_order |-> warn, warnings |-> <<>>, fn_common |-> <<"fn", "">>,
     state_goto |-> FALSE]

\* a code item before its expansion: the DFAs of a block or a directive
Directive(kind, names, fmt, sep) ==
    [k |-> kind, block_names |-> names, format |-> fmt, separator |-> sep]

CondNames == <<"c1", "c2", "c3", "c4", "c5">>

\* a block of n conditions; their numbers are the positions or, as in
\* loop/switch mode, the labels of the initial states
CondBlock(n, o, bylabel) ==
    OutputBlock("b1", 1, "GLOBAL", o,
                [i \in 1 .. n |-> StartCond(CondNames[i], IF bylabel THEN 3 * (i - 1) ELSE i - 1)],
                <<>>, Label(0))

\* inputs of the condition dispatch of a block in goto/label mode
CondGotoInputs ==
    {<<o, Output(<<CondBlock(n, o, bl)>>, <<>>, "cblocks", 1, o, w), Directive("DFAS", <<>>, NULL, NULL)>> :
        o \in {BlockOpt("GOTO_LABEL", tg, FALSE, TRUE, ni, cg, ca, FALSE, FALSE, "yyc", "yy", hf) :
                 tg \in {"CODE", "DOT"}, ni \in BOOLEAN, cg \in BOOLEAN, ca \in BOOLEAN,
                 hf \in {"", "lex.h"}},
        n \in 1 .. MaxConds, bl \in BOOLEAN, w \in BOOLEAN}

\* inputs of the yystate declaration of a block in loop/switch mode
YystateInputs ==
    {<<o, Output(<<CondBlock(n, o, TRUE)>>, <<>>, "cblocks", 1, o, FALSE), Directive("DFAS", <<>>, NULL, NULL)>> :
        o \in {BlockOpt("LOOP_SWITCH", "CODE", ss, sc, FALSE, FALSE, ca, FALSE, FALSE, "yyc", "yy", "") :
                 ss \in BOOLEAN, sc \in BOOLEAN, ca \in BOOLEAN},
        n \in 1 .. 2}

\* lists of at most two conditions with distinct names
EnumConds ==
    {<<>>}
    \cup {<<StartCond(a, i)>> : a \in {"c1", "c2", "yyc1"}, i \in 0 .. 1}
    \cup {<<StartCond(p[1], i), StartCond(p[2], j)>> :
            p \in {<<"c1", "c2">>, <<"c1", "yyc1">>, <<"c2", "yyc1">>},
            i \in 0 .. 1, j \in 0 .. 1}

\* options of the whole file and of a block with a condition prefix
EnumOpt(cm, tg, cep) ==
    BlockOpt(cm, tg, FALSE, TRUE, FALSE, FALSE, FALSE, FALSE, FALSE, cep, "yy", "")

\* inputs of types:re2c: two blocks, the second one in the code or in the
\* header, and a directive with or without a list of block names
EnumInputs ==
    {<<EnumOpt(x[1], x[2], p), 
       Output(<<OutputBlock("b1", 1, "GLOBAL", EnumOpt(x[1], x[2], p), l1, <<>>, Label(0))>>
              \o (IF hd THEN <<>>
                  ELSE <<OutputBlock("b2", 2, "GLOBAL", EnumOpt(x[1], x[2], ""), l2, <<>>, Label(5))>>),
              IF hd THEN <<OutputBlock("b2", 2, "GLOBAL", EnumOpt(x[1], x[2], ""), l2, <<>>, Label(5))>>
              ELSE <<>>,
              "cblocks", 1, EnumOpt(x[1], x[2], ""), FALSE),
       Directive("COND_ENUM", x[3], x[4], x[5])>> :
        x \in {<<"GOTO_LABEL", "CODE", <<>>, NULL, NULL>>,
               <<"LOOP_SWITCH", "CODE", <<>>, NULL, NULL>>,
               <<"REC_FUNC", "CODE", <<"b2", "b1">>, NULL, NULL>>,
               <<"GOTO_LABEL", "CODE", <<"b2", "b1">>, Str("@@"), Str(",")>>,
               <<"LOOP_SWITCH", "CODE", <<"b1", "b3">>, Str("@@"), NULL>>,
               <<"LOOP_SWITCH", "SKELETON", <<>>, NULL, NULL>>},
        p \in {"", "yy"}, hd \in BOOLEAN, l1 \in EnumConds, l2 \in EnumConds}

\* the fill-goto map of a block with n YYFILL points, numbered from first
FillGoto(first, n) ==
    [i \in 1 .. n |->
        [state |-> first + i - 1,
         code |-> <<[k |-> "goto", label |-> gen_fill_label(first + i - 1)]>>]]

StateOpt(cm, tg, sa, sn, lp) ==
    BlockOpt(cm, tg, TRUE, FALSE, FALSE, FALSE, FALSE, sa, sn, "yyc", lp, "")

\* a block for getstate:re2c: one that generates no code has no start label
\* and no YYFILL point
StateBlocks(name, loc, cm, tg, lp, first, aborts) ==
    {OutputBlock(name, loc, kind, StateOpt(cm, tg, sa, FALSE, lp), <<>>, <<>>, NULL) :
        kind \in {"GLOBAL", "USE"}, sa \in aborts}
    \cup {OutputBlock(name, loc, kind, StateOpt(cm, tg, sa, FALSE, lp), <<>>,
                      FillGoto(first, n), Label(first)) :
            kind \in {"GLOBAL", "USE"}, sa \in aborts, n \in 0 .. MaxFills}

\* inputs of getstate:re2c under one code model and target: two code blocks
\* and a header block, and a directive with or without a list of block names
StateGotoInputsOf(cm, tg) ==
    {<<b1.opts,
       Output(<<b1, b2>>,
              <<OutputBlock("b3", 3, "GLOBAL", StateOpt(cm, tg, TRUE, FALSE, "h"), <<>>,
                            FillGoto(20, 1), Label(20))>>,
              "cblocks", 1, StateOpt(cm, tg, sa, sn, "yy"), FALSE),
       Directive("STATE_GOTO", names, NULL, NULL)>> :
        sa \in BOOLEAN, sn \in BOOLEAN,
        names \in {<<>>, <<"b1">>, <<"b2", "b1">>, <<"b2", "b3">>, <<"b1", "b4">>},
        b1 \in StateBlocks("b1", 1, cm, tg, "yy", 0, BOOLEAN),
        b2 \in StateBlocks("b2", 2, cm, tg, "zz", 10, {FALSE})}

\* the code models and targets of the getstate:re2c inputs
StateGotoModes ==
    {<<"GOTO_LABEL", "CODE">>, <<"LOOP_SWITCH", "CODE">>, <<"REC_FUNC", "CODE">>,
     <<"GOTO_LABEL", "DOT">>}

InitBlock ==
    /\ \/ \E x \in CondGotoInputs : opts = x[1] /\ output = x[2] /\ from = x[3]
       \/ \E x \in YystateInputs : opts = x[1] /\ output = x[2] /\ from = x[3]
       \/ \E x \in EnumInputs : opts = x[1] /\ output = x[2] /\ from = x[3]
       \/ \E m \in StateGotoModes : \E x \in StateGotoInputsOf(m[1], m[2]) :
              opts = x[1] /\ output = x[2] /\ from = x[3]
    /\ dfa = NULL
    /\ op = "init"
    /\ jump = NULL
    /\ code = <<>>
    /\ ret = "OK"
    /\ pc = NULL

\* gen_block_code, gen_block_dot: the condition dispatch of a block with
\* conditions; it may issue the condition-order warning
GenCondGoto ==
    /\ op = "init"
    /\ from.k = "DFAS"
    /\ opts.code_model = "GOTO_LABEL"
    /\ block.conds # <<>>
    /\ op' = "gen_cond_goto"
    /\ code' = gen_cond_goto
    /\ output' = [output EXCEPT !.warnings =
                     IF warn_cond_ord THEN Append(@, "condition_order") ELSE @]
    /\ ret' = "OK"
    /\ UNCHANGED <<opts, dfa, from, jump, pc>>

\* gen_block_code in loop/switch mode: the declaration of yystate
GenYystateDef ==
    /\ op = "init"
    /\ from.k = "DFAS"
    /\ opts.code_model = "LOOP_SWITCH"
    /\ opts.target = "CODE"
    /\ op' = "gen_yystate_def"
    /\ code' = <<gen_yystate_def>>
    /\ ret' = "OK"
    /\ UNCHANGED <<opts, dfa, from, jump, output, pc>>

\* codegen_generate_block on a types:re2c directive
ExpandCondEnum ==
    /\ op = "init"
    /\ from.k = "COND_ENUM"
    /\ op' = "expand_cond_enum"
    /\ code' = <<expand_cond_enum(from).code>>
    /\ ret' = expand_cond_enum(from).ret
    /\ UNCHANGED <<opts, dfa, from, jump, output, pc>>

\* codegen_generate_block on a getstate:re2c directive
GenStateGoto ==
    /\ op = "init"
    /\ from.k = "STATE_GOTO"
    /\ op' = "gen_state_goto"
    /\ code' = <<gen_state_goto(from).code>>
    /\ ret' = gen_state_goto(from).ret
    /\ output' = gen_state_goto(from).output
    /\ UNCHANGED <<opts, dfa, from, jump, pc>>

NextBlock == GenCondGoto \/ GenYystateDef \/ ExpandCondEnum \/ GenStateGoto

SpecBlock == InitBlock /\ [][NextBlock]_vars

\* ------------------------------------------------------------------
\* codegen_generate: the code items of every block, in order
\* ------------------------------------------------------------------

\* variant of gen_bitmap that keeps the offset and mask it finds
BitmapStates_keep(bitmap) == bitmap.states

\* gen_bitmap: the states of a bitmap get their offset and mask by position,
\* eight states to a row of nchars elements
BitmapStates(bitmap) ==
    [i \in 1 .. Len(bitmap.states) |->
        [bitmap.states[i] EXCEPT !.offset = ((i - 1) \div 8) * bitmap.nchars,
                                 !.mask = 2 ^ (7 - ((i - 1) % 8))]]

\* gen_bitmap: no table for an empty or unused bitmap
gen_bitmap(bitmap, cond) ==
    IF bitmap.states = <<>> \/ ~bitmap.used THEN <<>>
    ELSE <<[k |-> "array", name |-> <<"yybm", cond>>,
            nelems |-> bitmap.nchars * ((Len(bitmap.states) + 7) \div 8),
            states |-> BitmapStates(bitmap)]>>

\* the DFAs of a block after gen_bitmap has run on each of them
BitmappedDfas(dfas) ==
    [i \in 1 .. Len(dfas) |->
        IF dfas[i].bitmap.states = <<>> \/ ~dfas[i].bitmap.used THEN dfas[i]
        ELSE [dfas[i] EXCEPT !.bitmap.states = BitmapStates(dfas[i].bitmap)]]

\* the concatenation of f[1] .. f[n]
RECURSIVE Concat(_)
Concat(f) == IF f = <<>> THEN <<>> ELSE Head(f) \o Concat(Tail(f))

\* variant of gen_state_goto_implicit without the state_goto flag
gen_state_goto_implicit_always ==
    LET use == block.kind = "USE"
        item == [k |-> "STATE_GOTO", block_names |-> IF use THEN <<block.name>> ELSE <<>>,
                 format |-> NULL, separator |-> NULL]
        r == gen_state_goto(item)
    IN  IF r.ret = "FAIL"
        THEN [ret |-> "FAIL", code |-> <<>>, output |-> output]
        ELSE [ret |-> "OK", code |-> <<r.code>>, output |-> r.output]

\* gen_state_goto_implicit: the local state switch of a use block, or the
\* global state switch unless one was generated or is given explicitly
gen_state_goto_implicit ==
    LET use == block.kind = "USE"
        item == [k |-> "STATE_GOTO", block_names |-> IF use THEN <<block.name>> ELSE <<>>,
                 format |-> NULL, separator |-> NULL]
        Appended(r) ==
            IF r.ret = "FAIL"
            THEN [ret |-> "FAIL", code |-> <<>>,
                  output |-> [output EXCEPT !.state_goto = @ \/ ~use]]
            ELSE [ret |-> "OK", code |-> <<r.code>>,
                  output |-> [r.output EXCEPT !.state_goto = @ \/ ~use]]
    IN  IF ~use /\ output.state_goto
        THEN [ret |-> "OK", code |-> <<>>, output |-> output]
        ELSE Appended(gen_state_goto(item))

\* gen_cond_func: the function that dispatches on the condition
gen_cond_func ==
    [k |-> "FNDEF", name |-> StartLabel(block),
     stmts |-> <<[k |-> "switch", expr |-> output_cond_get,
                  cases |-> [i \in 1 .. Len(block.conds) |->
                               [default |-> FALSE,
                                str |-> gen_cond_enum_elem(block.conds[i].name),
                                body |-> <<[k |-> "tailcall",
                                            fn |-> fn_name_for_cond(block.conds[i].name),
                                            yych |-> FALSE]>>]]
                            \o (IF opts.cond_abort
                                THEN <<[default |-> TRUE, body |-> gen_abort]>>
                                ELSE <<>>)]>>]

\* the states of one DFA, emitted under the code model of the block
DfaStates(d) == [k |-> "dfa", cond |-> d.cond, head |-> d.head]

\* gen_start_function: the entry function of a block in rec/func mode
gen_start_function(d) ==
    LET is_cond_block == d.cond # ""
        pre == IF is_cond_block THEN <<gen_cond_func>> ELSE <<>>
        l == IF is_cond_block THEN StartLabel(block)
             ELSE [l |-> "start", prefix |-> opts.label_prefix, index |-> d.head]
    IN  IF opts.storable_state
        THEN [gen_state_goto_implicit EXCEPT !.code = pre \o @]
        ELSE [ret |-> "OK",
              code |-> pre \o <<[k |-> "FNDEF", name |-> block.fn_common,
                                 stmts |-> <<[k |-> "tailcall", fn |-> l, yych |-> FALSE]>>]>>,
              output |-> output]

\* the body of gen_block_code; implicit is the result of the state dispatch
\* or the start function that the code model asks for
BlockCode(dfas, implicit) ==
    LET is_cond_block == dfas[1].cond # ""
        bitmaps == IF opts.bitmaps
                   THEN Concat([i \in 1 .. Len(dfas) |->
                                  gen_bitmap(dfas[i].bitmap, dfas[i].cond)])
                   ELSE <<>>
        stmts ==
            CASE opts.code_model = "GOTO_LABEL" ->
                   (IF opts.computed_gotos /\ is_cond_block
                    THEN <<[k |-> "cond_table",
                            elems |-> [i \in 1 .. Len(block.conds) |->
                                          CondLabel(block.conds[i].name)]]>>
                    ELSE <<>>)
                   \o bitmaps
                   \o implicit.code
                   \o (IF block.start_label # NULL
                       THEN <<[k |-> "nlabel", label |-> StartLabel(block)]>> ELSE <<>>)
                   \o (IF is_cond_block THEN gen_cond_goto ELSE <<>>)
                   \o Concat([i \in 1 .. Len(dfas) |->
                                (IF is_cond_block
                                 THEN <<[k |-> "slabel", label |-> CondLabel(dfas[i].cond)]>>
                                 ELSE <<>>) \o <<DfaStates(dfas[i])>>])
              [] opts.code_model = "LOOP_SWITCH" ->
                   <<gen_yystate_def,
                     [k |-> "loop", cases |-> [i \in 1 .. Len(dfas) |-> DfaStates(dfas[i])],
                      abort |-> opts.state_abort]>>
              [] opts.code_model = "REC_FUNC" ->
                   <<[k |-> "recursive_functions",
                      funcs |-> [i \in 1 .. Len(dfas) |-> DfaStates(dfas[i])] \o implicit.code]>>
        marked == implicit.output
        warned == IF opts.code_model = "GOTO_LABEL" /\ is_cond_block /\ warn_cond_ord
                  THEN Append(marked.warnings, "condition_order") ELSE marked.warnings
        tabled == IF opts.code_model = "GOTO_LABEL" /\ opts.bitmaps
                  THEN BitmappedDfas(dfas) ELSE dfas
    IN  IF implicit.ret = "FAIL"
        THEN [ret |-> "FAIL", code |-> <<>>,
              output |-> [marked EXCEPT ![output.pblocks][output.cur].dfas = tabled]]
        ELSE [ret |-> "OK", code |-> stmts,
              output |-> [marked EXCEPT ![output.pblocks][output.cur].dfas = tabled,
                                        !.warnings = warned]]

\* gen_block_code: the tables, the dispatches and the DFAs of the current
\* block (the declarations of yych and yyaccept are not part of the tree)
gen_block_code(dfas) ==
    BlockCode(dfas,
              IF opts.code_model = "GOTO_LABEL"
              THEN IF opts.storable_state THEN gen_state_goto_implicit
                   ELSE [ret |-> "OK", code |-> <<>>, output |-> output]
              ELSE IF opts.code_model = "REC_FUNC" THEN gen_start_function(dfas[1])
              ELSE [ret |-> "OK", code |-> <<>>, output |-> output])

\* variant of codegen_generate_block that goes on after a failed item
codegen_generate_item_unchecked(item) ==
    CASE item.k = "DFAS" ->
           LET r == gen_block_code(block.dfas)
           IN  [ret |-> "OK",
                code |-> [k |-> "BLOCK", kind |-> "RAW", stmts |-> r.code],
                output |-> r.output]
      [] item.k = "STATE_GOTO" ->
           [ret |-> "OK", code |-> gen_state_goto(item).code,
            output |-> gen_state_goto(item).output]
      [] item.k = "COND_ENUM" ->
           [ret |-> "OK", code |-> expand_cond_enum(item).code, output |-> output]
      [] OTHER -> [ret |-> "OK", code |-> item, output |-> output]

\* codegen_generate_block, one iteration of its loop: the item is expanded
\* in place by its kind, any other kind is left for the render phase
codegen_generate_item(item) ==
    CASE item.k = "DFAS" ->
           IF opts.target = "DOT"
           THEN [ret |-> "OK",
                 code |-> [k |-> "BLOCK", kind |-> "RAW",
                           stmts |-> <<[k |-> "dot",
                              dfas |-> [i \in 1 .. Len(block.dfas) |->
                                          DfaStates(block.dfas[i])]]>>],
                 output |-> output]
           ELSE IF opts.target = "SKELETON"
           THEN [ret |-> "OK",
                 code |-> [k |-> "BLOCK", kind |-> "RAW",
                           stmts |-> <<[k |-> "skeleton",
                              dfas |-> [i \in 1 .. Len(block.dfas) |->
                                          DfaStates(block.dfas[i])]]>>],
                 output |-> output]
           ELSE LET Checked(r) ==
                        IF r.ret = "FAIL"
                        THEN [ret |-> "FAIL", code |-> item, output |-> r.output]
                        ELSE [ret |-> "OK",
                              code |-> [k |-> "BLOCK", kind |-> "RAW", stmts |-> r.code],
                              output |-> r.output]
                IN  Checked(gen_block_code(block.dfas))
      [] item.k = "STATE_GOTO" -> gen_state_goto(item)
      [] item.k = "COND_ENUM" ->
           [ret |-> expand_cond_enum(item).ret, code |-> expand_cond_enum(item).code,
            output |-> output]
      [] OTHER -> [ret |-> "OK", code |-> item, output |-> output]

\* the block lists in the order of codegen_generate
BlockLists == <<"cblocks", "hblocks">>

\* the first block at or after block i of list l, none if pc.list = 3
RECURSIVE NextBlockAt(_, _, _)
NextBlockAt(o, l, i) ==
    IF l > Len(BlockLists) THEN [list |-> l, block |-> 1]
    ELSE IF i > Len(o[BlockLists[l]]) THEN NextBlockAt(o, l + 1, 1)
    ELSE [list |-> l, block |-> i]

\* the code of all blocks and the return code: the result of a run
Trees(o, r) ==
    [ret |-> r,
     cblocks |-> [i \in 1 .. Len(o.cblocks) |-> o.cblocks[i].code],
     hblocks |-> [i \in 1 .. Len(o.hblocks) |-> o.hblocks[i].code]]

\* Output::set_current_block
set_current_block(o, l, i) == [o EXCEPT !.pblocks = l, !.cur = i]

\* the options of the generator inputs
GenOpt(cm, tg, ss, sc, cg, bm) ==
    [code_model |-> cm, target |-> tg, storable_state |-> ss, start_conditions |-> sc,
     nested_ifs |-> FALSE, computed_gotos |-> cg, cond_abort |-> FALSE, state_abort |-> FALSE,
     state_next |-> FALSE, cond_enum_prefix |-> "yyc", label_prefix |-> "yy",
     header_file |-> "", bitmaps |-> bm]

\* a DFA: its condition, the label index of its head state and its bitmap
Dfa(cond, head, bm) ==
    [cond |-> cond, head |-> head,
     bitmap |-> [used |-> bm, nchars |-> 256,
                 states |-> <<[state |-> head + 1, offset |-> 0, mask |-> 0],
                              [state |-> head + 2, offset |-> 0, mask |-> 0]>>]]

\* a block with its code items and DFAs
GenBlock(name, loc, kind, o, conds, nfill, items, bm) ==
    LET dfas == IF \A i \in 1 .. Len(items) : items[i].k # "DFAS" THEN <<>>
                ELSE IF conds = <<>> THEN <<Dfa("", 10 * loc, bm)>>
                ELSE [i \in 1 .. Len(conds) |-> Dfa(conds[i].name, 10 * loc + 3 * i, bm)]
        b == OutputBlock(name, loc, kind, o, conds, FillGoto(10 * loc, nfill),
                         IF dfas = <<>> THEN NULL ELSE Label(10 * loc + 9))
    IN  [b EXCEPT !.dfas = dfas, !.code = items]

\* the blocks a file can begin with; the block at position loc is named by it
GenBlocks(loc, o) ==
    LET name == IF loc = 1 THEN "b1" ELSE IF loc = 2 THEN "b2" ELSE "b3"
        dfas == <<[k |-> "DFAS"]>>
        text == <<[k |-> "TEXT", text |-> "int x;"]>>
        c0 == <<StartCond("c1", 0)>>
        c1 == <<StartCond("c1", 1), StartCond("c2", 0)>>
        nf == IF o.storable_state THEN 1 ELSE 0
    IN  {GenBlock(name, loc, kind, o, <<>>, nf, text \o dfas, bm) :
             kind \in {"GLOBAL", "USE"}, bm \in BOOLEAN}
        \union
        {GenBlock(name, loc, "GLOBAL", o, conds, nf, dfas, FALSE) : conds \in {c0, c1}}
        \union
        {GenBlock(name, loc, "GLOBAL", o, <<>>, nf, items, FALSE) :
             items \in {dfas \o <<Directive("STATE_GOTO", <<>>, NULL, NULL)>>,
                        <<Directive("STATE_GOTO", <<IF loc = 1 THEN "b2" ELSE "b3">>,
                                    NULL, NULL)>> \o dfas,
                        <<Directive("COND_ENUM", <<>>, NULL, NULL)>> \o dfas,
                        text}}

\* the files: one or two code blocks and at most one header block
GenOutputs(o) ==
    LET files ==
            {<<cb, hb>> :
                cb \in {<<b>> : b \in GenBlocks(1, o)}
                       \union {<<b1, b2>> : b1 \in GenBlocks(1, o), b2 \in GenBlocks(2, o)},
                hb \in {<<>>} \union
                       {<<GenBlock("b3", 3, "GLOBAL", o, <<StartCond("c1", 0)>>, 0,
                                   <<Directive("COND_ENUM", <<>>, NULL, NULL)>>, FALSE)>>}}
        explicit(f) ==
            \E l \in 1 .. 2 : \E i \in 1 .. Len(f[l]) : \E j \in 1 .. Len(f[l][i].code) :
                f[l][i].code[j].k = "STATE_GOTO"
    IN  {[Output(f[1], f[2], "cblocks", 0, o, TRUE)
             EXCEPT !.state_goto = explicit(f)] : f \in files}

GenInputs ==
    UNION {GenOutputs(GenOpt(x[1], x[2], ss, TRUE, FALSE, TRUE)) :
              x \in {<<"GOTO_LABEL", "CODE">>, <<"LOOP_SWITCH", "CODE">>,
                     <<"REC_FUNC", "CODE">>, <<"GOTO_LABEL", "DOT">>,
                     <<"GOTO_LABEL", "SKELETON">>},
              ss \in BOOLEAN}

\* the position of codegen_generate: the run, whether the state_goto flag
\* differs from the one the first run began with, the block and the item
Position(run, stale, at) ==
    [run |-> run, stale |-> stale, list |-> at.list, block |-> at.block, item |-> 0]

\* DFAs whose bitmap states hold the offset and mask of some earlier use
StaleDfas(dfas) ==
    [i \in 1 .. Len(dfas) |->
        [dfas[i] EXCEPT !.bitmap.states =
            [j \in 1 .. Len(@) |-> [@[j] EXCEPT !.offset = 512, !.mask = 1]]]]

\* before codegen_generate: the blocks as pass 1 left them, kept in from
InitGen ==
    /\ output \in GenInputs
    /\ from = output
    /\ opts = output.total_opts
    /\ dfa = NULL
    /\ jump = NULL
    /\ op = "init"
    /\ code = NULL
    /\ ret = "OK"
    /\ pc = Position(1, FALSE, NextBlockAt(output, 1, 1))

\* codegen_generate, the head of the inner loop: the next block becomes
\* the current block
SetCurrentBlock ==
    /\ op \in {"init", "clear"}
    /\ pc.list <= Len(BlockLists)
    /\ op' = "set_current_block"
    /\ output' = set_current_block(output, BlockLists[pc.list], pc.block)
    /\ opts' = output[BlockLists[pc.list]][pc.block].opts
    /\ pc' = [pc EXCEPT !.item = 1]
    /\ UNCHANGED <<dfa, from, jump, code, ret>>

\* codegen_generate_block, one code item of the current block; a failure
\* ends codegen_generate
GenerateItem ==
    /\ op \in {"set_current_block", "item"}
    /\ pc.item <= Len(block.code)
    /\ LET Stored(r) ==
               [r EXCEPT !.output = [@ EXCEPT ![output.pblocks][output.cur].code[pc.item] = r.code]]
           Step(r) ==
               /\ output' = r.output
               /\ ret' = r.ret
               /\ op' = IF r.ret = "FAIL" THEN "failed" ELSE "item"
               /\ code' = IF r.ret = "FAIL" THEN Trees(r.output, "FAIL") ELSE code
       IN  Step(Stored(codegen_generate_item(block.code[pc.item])))
    /\ pc' = [pc EXCEPT !.item = @ + 1]
    /\ UNCHANGED <<opts, dfa, from, jump>>

\* codegen_generate, after codegen_generate_block: the DFAs of the block
\* are dropped
ClearDfas ==
    /\ op \in {"set_current_block", "item"}
    /\ pc.item > Len(block.code)
    /\ op' = "clear"
    /\ output' = [output EXCEPT ![output.pblocks][output.cur].dfas = <<>>]
    /\ pc' = Position(pc.run, pc.stale, NextBlockAt(output, pc.list, pc.block + 1))
    /\ UNCHANGED <<opts, dfa, from, jump, code, ret>>

\* codegen_generate, after the loops: no current block, success
Finish ==
    /\ op \in {"init", "clear"}
    /\ pc.list > Len(BlockLists)
    /\ op' = "done"
    /\ output' = set_current_block(output, "cblocks", 0)
    /\ code' = Trees(output, "OK")
    /\ UNCHANGED <<opts, dfa, from, jump, ret, pc>>

\* the same input generated anew: code items and DFAs as pass 1 left them,
\* the flags of labels, bitmaps and the state switch as the first run left them
Reload ==
    /\ op \in {"done", "failed"}
    /\ pc.run = 1
    /\ op' = "init"
    /\ output' =
          [output EXCEPT
              !.cblocks = [i \in 1 .. Len(from.cblocks) |->
                             [output.cblocks[i] EXCEPT
                                 !.code = from.cblocks[i].code,
                                 !.dfas = StaleDfas(from.cblocks[i].dfas)]],
              !.hblocks = [i \in 1 .. Len(from.hblocks) |->
                             [output.hblocks[i] EXCEPT
                                 !.code = from.hblocks[i].code,
                                 !.dfas = StaleDfas(from.hblocks[i].dfas)]],
              !.warnings = <<>>, !.pblocks = "cblocks", !.cur = 0]
    /\ ret' = "OK"
    /\ pc' = Position(2, output.state_goto # from.state_goto, NextBlockAt(output, 1, 1))
    /\ UNCHANGED <<opts, dfa, from, jump, code>>

NextGen == SetCurrentBlock \/ GenerateItem \/ ClearDfas \/ Finish \/ Reload

SpecGen == InitGen /\ [][NextGen]_vars

\* ------------------------------------------------------------------
\* the generated m-tag lexer of go/submatch/02_mtags.re
\* ------------------------------------------------------------------

mtagRoot == -1
mtagNil == -2

\* variant of mtag that starts a new history with every element
mtag_root(trie, tag, val) == Append(trie, [val |-> val, pred |-> mtagRoot])

\* mtag: the trie with one more element; its index is the new tag value
mtag(trie, tag, val) == Append(trie, [val |-> val, pred |-> tag])

\* the index of the element that mtag has just appended (indices from 0)
LastElem(trie) == Len(trie) - 1

\* str[lo:hi] of a string with indices from 0
Slice(str, lo, hi) == SubSeq(str, lo + 1, hi)

\* unwind: the submatches of the two histories, oldest first, or a panic
RECURSIVE unwind(_, _, _, _)
unwind(trie, x, y, str) ==
    IF x = mtagRoot /\ y = mtagRoot THEN [panic |-> FALSE, ss |-> <<>>]
    ELSE IF x = mtagRoot \/ y = mtagRoot THEN [panic |-> TRUE, ss |-> <<>>]
    ELSE LET xval == trie[x + 1].val
             yval == trie[y + 1].val
             r == unwind(trie, trie[x + 1].pred, trie[y + 1].pred, str)
         IN  IF r.panic THEN r
             ELSE IF xval = mtagNil /\ yval = mtagNil THEN r
             ELSE IF xval = mtagNil \/ yval = mtagNil THEN [panic |-> TRUE, ss |-> <<>>]
             ELSE [panic |-> FALSE, ss |-> Append(r.ss, Slice(str, xval, yval))]

\* the characters: two lowercase letters, the separator, some other byte
LexChars == {"a", "b", ";", "X"}

Lowercase == {"a", "b"}

\* the inputs: up to MaxLen characters and the terminating NUL
LexInputs == {Append(w, "NUL") : w \in SeqsUpTo(LexChars, MaxLen)}

\* the registers of lex
LexState(at, cursor, marker, yytm1, yytm2, x, y) ==
    [at |-> at, cursor |-> cursor, marker |-> marker, yytm1 |-> yytm1, yytm2 |-> yytm2,
     x |-> x, y |-> y]

\* lex, before the first state: empty trie, empty histories
InitLex ==
    /\ from \in LexInputs
    /\ output = <<>>
    /\ pc = LexState("yy0", 0, 0, mtagRoot, mtagRoot, mtagRoot, mtagRoot)
    /\ op = "init"
    /\ code = NULL
    /\ ret = "OK"
    /\ opts = NULL
    /\ dfa = NULL
    /\ jump = NULL

\* the character under the cursor
yych == from[pc.cursor + 1]

\* the initial state
Yy0 ==
    /\ pc.at = "yy0"
    /\ op' = "lex"
    /\ IF yych = "NUL"
       THEN LET t2 == mtag(output, pc.yytm2, mtagNil)
                t1 == mtag(t2, pc.yytm1, mtagNil)
            IN  /\ output' = t1
                /\ pc' = [pc EXCEPT !.at = "yy2", !.yytm2 = LastElem(t2),
                                    !.yytm1 = LastElem(t1)]
       ELSE IF yych \in Lowercase
       THEN /\ output' = mtag(output, pc.yytm1, pc.cursor)
            /\ pc' = [pc EXCEPT !.at = "yy6", !.yytm1 = LastElem(output')]
       ELSE /\ output' = output
            /\ pc' = [pc EXCEPT !.at = "yy4"]
    /\ UNCHANGED <<opts, dfa, from, jump, code, ret>>

\* the accepting rule: the histories are read and unwound
Yy2 ==
    /\ pc.at = "yy2"
    /\ op' = "done"
    /\ pc' = [pc EXCEPT !.at = "return", !.cursor = @ + 1, !.x = pc.yytm1, !.y = pc.yytm2]
    /\ LET r == unwind(output, pc.yytm1, pc.yytm2, from)
       IN  /\ code' = IF r.panic THEN NULL ELSE [ss |-> r.ss]
           /\ ret' = IF r.panic THEN "PANIC" ELSE "OK"
    /\ UNCHANGED <<opts, dfa, from, jump, output>>

Yy4 ==
    /\ pc.at = "yy4"
    /\ pc' = [pc EXCEPT !.at = "yy5", !.cursor = @ + 1]
    /\ UNCHANGED <<opts, dfa, op, from, jump, code, output, ret>>

\* the default rule: return nil
Yy5 ==
    /\ pc.at = "yy5"
    /\ op' = "done"
    /\ pc' = [pc EXCEPT !.at = "return"]
    /\ code' = [nil |-> TRUE]
    /\ UNCHANGED <<opts, dfa, from, jump, output, ret>>

Yy6 ==
    /\ pc.at = "yy6"
    /\ LET c == pc.cursor + 1
           ch == from[c + 1]
       IN  IF ch = ";"
           THEN /\ output' = mtag(output, pc.yytm2, c)
                /\ pc' = [pc EXCEPT !.at = "yy7", !.cursor = c, !.marker = c,
                                    !.yytm2 = LastElem(output')]
           ELSE /\ output' = output
                /\ pc' = [pc EXCEPT !.at = IF ch \in Lowercase THEN "yy9" ELSE "yy5",
                                    !.cursor = c, !.marker = c]
    /\ UNCHANGED <<opts, dfa, op, from, jump, code, ret>>

Yy7 ==
    /\ pc.at = "yy7"
    /\ LET c == pc.cursor + 1
           ch == from[c + 1]
       IN  IF ch \in Lowercase
           THEN /\ output' = mtag(output, pc.yytm1, c)
                /\ pc' = [pc EXCEPT !.at = "yy9", !.cursor = c, !.yytm1 = LastElem(output')]
           ELSE /\ output' = output
                /\ pc' = [pc EXCEPT !.at = IF ch = "NUL" THEN "yy2" ELSE "yy8", !.cursor = c]
    /\ UNCHANGED <<opts, dfa, op, from, jump, code, ret>>

Yy8 ==
    /\ pc.at = "yy8"
    /\ pc' = [pc EXCEPT !.at = "yy5", !.cursor = pc.marker]
    /\ UNCHANGED <<opts, dfa, op, from, jump, code, output, ret>>

Yy9 ==
    /\ pc.at = "yy9"
    /\ LET c == pc.cursor + 1
           ch == from[c + 1]
       IN  IF ch = ";"
           THEN /\ output' = mtag(output, pc.yytm2, c)
                /\ pc' = [pc EXCEPT !.at = "yy7", !.cursor = c, !.yytm2 = LastElem(output')]
           ELSE /\ output' = output
                /\ pc' = [pc EXCEPT !.at = IF ch \in Lowercase THEN "yy9" ELSE "yy8",
                                    !.cursor = c]
    /\ UNCHANGED <<opts, dfa, op, from, jump, code, ret>>

NextLex == Yy0 \/ Yy2 \/ Yy4 \/ Yy5 \/ Yy6 \/ Yy7 \/ Yy8 \/ Yy9

SpecLex == InitLex /\ [][NextLex]_vars

\* ------------------------------------------------------------------
\* the states of a DFA as switch cases and as recursive functions
\* ------------------------------------------------------------------

\* emit_state, emit_action, gen_go: the code of one state
StateCode(st) == emit_state(st) \o emit_action(st) \o gen_go(st.go, st)

\* the last state of the run that begins at state i: the states after it
\* whose labels are unused
RECURSIVE FusedEnd(_, _)
FusedEnd(states, i) ==
    IF i < Len(states) /\ ~states[i + 1].used THEN FusedEnd(states, i + 1) ELSE i

\* the code of states i .. e in one list
FusedBody(states, i, e) == Concat([n \in 1 .. e - i + 1 |-> StateCode(states[i + n - 1])])

\* the label indices of states i .. e
FusedIds(states, i, e) == [n \in 1 .. e - i + 1 |-> states[i + n - 1].id]

\* variant of gen_dfa_as_switch_cases that begins a case at every state
RECURSIVE gen_dfa_as_switch_cases_each(_, _)
gen_dfa_as_switch_cases_each(states, i) ==
    IF i > Len(states) THEN <<>>
    ELSE <<[default |-> FALSE, number |-> states[i].id,
            body |-> FusedBody(states, i, i), states |-> FusedIds(states, i, i)]>>
         \o gen_dfa_as_switch_cases_each(states, i + 1)

\* gen_dfa_as_switch_cases: one case per state with a used label, numbered by
\* its label index, with the states after it whose labels are unused; the
\* field states names the states whose code the body holds
RECURSIVE gen_dfa_as_switch_cases(_, _)
gen_dfa_as_switch_cases(states, i) ==
    IF i > Len(states) THEN <<>>
    ELSE LET e == FusedEnd(states, i)
         IN  <<[default |-> FALSE, number |-> states[i].id,
                body |-> FusedBody(states, i, e), states |-> FusedIds(states, i, e)]>>
             \o gen_dfa_as_switch_cases(states, e + 1)

\* the state functions of gen_dfa_as_recursive_functions
RECURSIVE StateFunctions(_, _)
StateFunctions(states, i) ==
    IF i > Len(states) THEN <<>>
    ELSE LET e == FusedEnd(states, i)
         IN  <<[k |-> "FNDEF", name |-> StateLabel(states[i].id),
                yych |-> need_yych_arg(states[i]),
                stmts |-> FusedBody(states, i, e), states |-> FusedIds(states, i, e)]>>
             \o StateFunctions(states, e + 1)

\* gen_dfa_as_recursive_functions: the state functions and, for a DFA of a
\* condition, the entry function of the condition
gen_dfa_as_recursive_functions(d) ==
    StateFunctions(d.states, 1)
    \o (IF d.cond # ""
        THEN <<[k |-> "FNDEF", name |-> fn_name_for_cond(d.cond), yych |-> FALSE,
                stmts |-> <<[k |-> "tailcall", fn |-> StateLabel(d.states[1].id),
                             yych |-> FALSE]>>,
                states |-> <<>>]>>
        ELSE <<>>)

\* the options: those of the state generator and those of the block
DfaOpt(cm, fl, fe, ss) ==
    [RuleOpt("DEFAULT", "FUNCTIONS", cm, "CODE", ss, FALSE, FALSE)
        EXCEPT !.fill_enable = fl, !.fill_eof = fe]
    @@ GenOpt(cm, "CODE", ss, TRUE, FALSE, FALSE)

\* a state as its transitions see it
Stub(id, kind, used, span) == [id |-> id, kind |-> kind, used |-> used, go |-> [span |-> span]]

\* a DFA of four states: the initial state, a MATCH or MOVE state with two
\* transitions, a state before the final state and the final state of rule 0;
\* fill resumes at the state itself, for a MOVE state at its predecessor
DfaStatesOf(kb, ua, ub, uc, ud, e) ==
    LET sd == Stub(4, "RULE", ud, <<>>)
        sc == Stub(3, "MATCH", uc, <<"RULE">>)
        sb == Stub(2, kb, ub, <<"MATCH", "RULE">>)
        go(js) == GoIf("IFL", TCID0, FALSE, js, Len(js))
        a == MkState(1, "INITIAL", ua,
                     go(<<Jump(sb, TCID0, FALSE, FALSE, e), Jump(sc, TCID0, TRUE, FALSE, FALSE)>>),
                     1, <<1>>, sd, TCID0, <<>>, 1, <<>>)
        b == [MkState(2, kb, ub,
                      go(<<Jump(sc, TCID0, FALSE, FALSE, e), Jump(sd, TCID0, FALSE, FALSE, FALSE)>>),
                      1, <<>>, sd, TCID0, <<>>, 1, <<>>)
                EXCEPT !.fill_state = IF kb = "MOVE" THEN [id |-> 1, fill_label |-> 1] ELSE @]
        c == MkState(3, "MATCH", uc, go(<<Jump(sd, TCID0, FALSE, FALSE, FALSE)>>),
                     1, <<>>, sd, TCID0, <<>>, 1, <<>>)
        d == MkState(4, "RULE", ud, [kind |-> "EMPTY", tags |-> TCID0, skip |-> FALSE,
                                     jumps |-> <<>>, span |-> <<>>],
                     0, <<>>, sd, TCID0, <<>>, 1, <<>>) @@ [rule |-> 0]
    IN  <<a, b, c, d>>

\* the DFAs: with or without a condition
Dfas ==
    {RuleDfa(BaseTags, 0, SemAct(<<>>, FALSE), cond, "", FALSE) @@ MainDfa
        @@ [states |-> DfaStatesOf(kb, ua, ub, uc, ud, e), head |-> 1] :
        cond \in {"", "c1"}, kb \in {"MATCH", "MOVE"},
        ua \in BOOLEAN, ub \in BOOLEAN, uc \in BOOLEAN, ud \in BOOLEAN, e \in BOOLEAN}

\* the block of the DFA
DfaOutput(o, d) ==
    Output(<<[OutputBlock("b1", 1, "GLOBAL", o,
                          IF d.cond = "" THEN <<>> ELSE <<StartCond(d.cond, 0)>>,
                          <<>>, Label(9))
                 EXCEPT !.dfas = <<d>>]>>,
           <<>>, "cblocks", 1, o, FALSE)

InitDfa ==
    /\ opts \in {DfaOpt(cm, fl, fe, ss) :
                    cm \in {"LOOP_SWITCH", "REC_FUNC"}, fl \in BOOLEAN, fe \in {NOEOF, 0},
                    ss \in BOOLEAN}
    /\ dfa \in Dfas
    /\ (\E i \in 1 .. Len(dfa.states) : \E n \in 1 .. Len(dfa.states[i].go.jumps) :
           dfa.states[i].go.jumps[n].eof) => opts.fill_eof # NOEOF
    /\ output = DfaOutput(opts, dfa)
    /\ op = "init"
    /\ from = NULL
    /\ jump = NULL
    /\ code = <<>>
    /\ ret = "OK"
    /\ pc = NULL

\* gen_block_code in loop/switch mode: the cases of the DFA
GenDfaAsSwitchCases ==
    /\ op = "init"
    /\ opts.code_model = "LOOP_SWITCH"
    /\ op' = "gen_dfa_as_switch_cases"
    /\ code' = gen_dfa_as_switch_cases(dfa.states, 1)
    /\ UNCHANGED <<opts, dfa, from, jump, output, ret, pc>>

\* gen_block_code in rec/func mode: the functions of the DFA and the start
\* function of the block
GenDfaAsRecursiveFunctions ==
    /\ op = "init"
    /\ opts.code_model = "REC_FUNC"
    /\ op' = "gen_dfa_as_recursive_functions"
    /\ LET Step(r) ==
               /\ code' = gen_dfa_as_recursive_functions(dfa) \o r.code
               /\ output' = r.output
               /\ ret' = r.ret
       IN  Step(gen_start_function(dfa))
    /\ UNCHANGED <<opts, dfa, from, jump, pc>>

NextDfa == GenDfaAsSwitchCases \/ GenDfaAsRecursiveFunctions

SpecDfa == InitDfa /\ [][NextDfa]_vars

\* ------------------------------------------------------------------
\* the dispatch of an ACCEPT state on the accept value
\* ------------------------------------------------------------------

\* the options read by emit_accept and by the transitions of its rows
AcceptOpts ==
    {[code_model |-> cm, fill_eof |-> NOEOF, var_fill |-> "", api |-> "DEFAULT",
      api_style |-> "FUNCTIONS", fill_enable |-> FALSE, fill_check |-> FALSE,
      storable_state |-> FALSE, eager_skip |-> FALSE, fill_naked |-> FALSE,
      debug |-> FALSE, computed_gotos |-> cg, nested_ifs |-> ni,
      computed_gotos_threshold |-> th] :
        cm \in {"GOTO_LABEL", "LOOP_SWITCH", "REC_FUNC"},
        cg \in BOOLEAN, ni \in BOOLEAN, th \in {2, 3}}

\* the rows of an accept table: a state whose label is used and the tags of
\* the transition to it
AcceptRows == {[state |-> Dest(i), tags |-> t] : i \in {11, 12, 13}, t \in {TCID0, 1}}

\* the accept tables: up to MaxAcc rows, no row twice
AcceptTables ==
    {acc \in SeqsUpTo(AcceptRows, MaxAcc) :
        \A i \in 1 .. Len(acc) : \A j \in 1 .. Len(acc) : acc[i] = acc[j] => i = j}

\* the ACCEPT states
AcceptStates ==
    {MkState(5, "ACCEPT", TRUE,
             GoIf("IFL", TCID0, FALSE, <<Jump(Dest(11), TCID0, FALSE, FALSE, FALSE)>>, 1),
             0, <<>>, Dest(13), TCID0, <<>>, Len(acc), acc) : acc \in AcceptTables}

InitAccept ==
    /\ opts \in AcceptOpts
    /\ dfa = MainDfa
    /\ op = "init"
    /\ from = NULL
    /\ jump = NULL
    /\ code = <<>>
    /\ output = NULL
    /\ ret = "OK"
    /\ pc = NULL

\* emit_action of an ACCEPT state
EmitAccept ==
    /\ op = "init"
    /\ \E s \in AcceptStates :
        /\ op' = "emit_accept"
        /\ from' = s
        /\ code' = emit_action(s)
    /\ UNCHANGED <<opts, dfa, jump, output, ret, pc>>

NextAccept == EmitAccept

SpecAccept == InitAccept /\ [][NextAccept]_vars

(* ---------------- reading emitted code --------------------------------- *)
TagKinds == {"assign", "settag", "backup_ctx"}

IsTagStmt(x) == x.k \in TagKinds

\* the statements of a list that are tag actions, in order
RECURSIVE TagStmts(_)
TagStmts(l) ==
    IF l = <<>> THEN <<>>
    ELSE (IF IsTagStmt(Head(l)) THEN <<Head(l)>> ELSE <<>>) \o TagStmts(Tail(l))

\* all statements of a list in textual order, those nested in the branches
\* of IF statements, in the cases of switches and in blocks included (a
\* compound statement comes before the statements nested in it)
RECURSIVE Flatten(_)
Flatten(l) ==
    IF l = <<>> THEN <<>>
    ELSE LET x == Head(l)
             inner ==
                 CASE x.k = "if" -> x.then \o x.else
                   [] x.k = "ifte" ->
                        LET B[i \in 0 .. Len(x.branches)] ==
                                IF i = 0 THEN <<>> ELSE B[i - 1] \o x.branches[i].then
                        IN  B[Len(x.branches)]
                   [] x.k = "switch" ->
                        LET B[i \in 0 .. Len(x.cases)] ==
                                IF i = 0 THEN <<>> ELSE B[i - 1] \o x.cases[i].body
                        IN  B[Len(x.cases)]
                   [] x.k = "block" -> x.body
                   [] OTHER -> <<>>
         IN  <<x>> \o Flatten(inner) \o Flatten(Tail(l))

\* the statement is, or contains, a YYFILL call
IsFill(x) == x.k = "fill" \/ (x.k = "if" /\ x.cond.c = "call")

HasFill(l) == \E i \in 1 .. Len(Flatten(l)) : IsFill(Flatten(l)[i])

\* positions of the statements of kind k at the top level of a list
Positions(l, k) == {i \in 1 .. Len(l) : l[i].k = k}

CountKind(l, k) == Cardinality(Positions(Flatten(l), k))

\* the list ends with a transfer of control to the state with label index i
EndsWithTransferTo(l, i) ==
    /\ l # <<>>
    /\ LET last == l[Len(l)]
       IN  CASE opts.code_model = "GOTO_LABEL" ->
                  last = [k |-> "goto", label |-> StateLabel(i)]
             [] opts.code_model = "LOOP_SWITCH" ->
                  /\ Len(l) >= 2
                  /\ last.k = "continue"
                  /\ l[Len(l) - 1] = [k |-> "assign_state", next |-> StateLabel(i)]
             [] opts.code_model = "REC_FUNC" ->
                  last.k = "tailcall" /\ last.fn = StateLabel(i)

\* number of statements of one transfer of control
TransferLen == IF opts.code_model = "LOOP_SWITCH" THEN 2 ELSE 1

\* tags left on the fallback transition of state s
EffFalltags(s) == IF s.go.tags # TCID0 THEN TCID0 ELSE s.falltags

\* the jump coincides with the fallback transition of s
Coincides(s, j) ==
    j # NULL /\ j.to.id = s.fallback.id /\ j.tags = EffFalltags(s) /\ ~j.skip

RecFill == opts.code_model = "REC_FUNC" /\ opts.fill_enable

IsTransfer(x) == x.k \in {"goto", "continue", "tailcall"}

\* The statements executed by the emitted code when the input is exhausted
\* and cannot be refilled: a less-than guard is true, a test of the YYFILL
\* result (success) is false.  Execution stops at the first transfer of
\* control; done tells whether one was reached.
RECURSIVE ExecNoInput(_)
ExecNoInput(l) ==
    IF l = <<>> THEN [stmts |-> <<>>, done |-> FALSE]
    ELSE LET x == Head(l)
             rest == ExecNoInput(Tail(l))
         IN  IF x.k = "if" THEN
                 LET b == ExecNoInput(IF x.cond.c = "less_than" THEN x.then ELSE x.else)
                 IN  IF b.done THEN b
                     ELSE [stmts |-> b.stmts \o rest.stmts, done |-> rest.done]
             ELSE IF IsTransfer(x) THEN [stmts |-> <<x>>, done |-> TRUE]
             ELSE [stmts |-> <<x>> \o rest.stmts, done |-> rest.done]

\* the statements of a list other than the YYFILL call and the state store
RECURSIVE Effects(_)
Effects(l) ==
    IF l = <<>> THEN <<>>
    ELSE (IF Head(l).k \in {"fill", "state_set"} THEN <<>> ELSE <<Head(l)>>)
         \o Effects(Tail(l))

\* a transition with the given tags to state i and nothing else
IsTransitionTo(l, tags, i) ==
    /\ EndsWithTransferTo(l, i)
    /\ SubSeq(l, 1, Len(l) - TransferLen) = gen_settags(tags)

(* ---------------- claims ----------------------------------------------- *)
\* C1: gen_fill_falllback returns the empty list for a jump that coincides
\* with the fallback transition (same destination, same tags after hoisting
\* suppression, no skip) unless the model is REC_FUNC with fill_enable; in
\* every other case the list is the fallback tag actions followed by one
\* transfer to the fallback state.
C1_FallbackElision ==
    op = "gen_fill_falllback" =>
        IF Coincides(from, jump) /\ ~RecFill
        THEN code = <<>>
        ELSE /\ EndsWithTransferTo(code, from.fallback.id)
             /\ SubSeq(code, 1, Len(code) - TransferLen) = gen_settags(EffFalltags(from))
             /\ TagStmts(code) = gen_settags(EffFalltags(from))

C1_Witness ==
    /\ op = "gen_fill_falllback"
    /\ Coincides(from, jump)
    /\ jump.tags # TCID0
    /\ ~RecFill
    /\ code = <<>>

\* C3: for a state with hoisted tags (go.tags # TCID0) the tags of the
\* fallback transition are go.tags, and the code emitted for the fallback
\* transition (alone, or inside a transition wrapped in a fill) contains no
\* tag action.
C3_HoistedFallback ==
    (op \in {"gen_fill_falllback", "gen_goto"} /\ from.go.tags # TCID0) =>
        /\ from.falltags = from.go.tags
        /\ TagStmts(Flatten(code)) = <<>>

C3_Witness ==
    /\ op = "gen_fill_falllback"
    /\ from.go.tags # TCID0
    /\ EndsWithTransferTo(code, from.fallback.id)
    /\ Len(code) = TransferLen

\* the fallback transition is emitted next to the fill of a transition
FallbackInFill == opts.fill_eof # NOEOF /\ ~opts.storable_state

\* C2: wherever a fallback transition is emitted (by gen_fill around a
\* transition, with or without fill_check, and by the dispatch of
\* gen_goto_after_fill with storable state and the EOF rule), the code run
\* when the refill fails is the fallback transition: the fallback tags, no
\* skip, and a transfer to the fallback state.  When the fallback code is
\* elided this is the transition that follows it, which has the same
\* destination, the same tags and no skip (its own transfer may be elided as
\* a fall-through to that destination).
C2_ElidedFallbackFallsToSame ==
    /\ (op = "gen_goto" /\ jump.eof /\ FallbackInFill) =>
          LET run == ExecNoInput(code)
          IN  IF gen_fill_falllback(from, jump) # <<>> \/ run.done
              THEN IsTransitionTo(Effects(run.stmts), EffFalltags(from), from.fallback.id)
              ELSE /\ Coincides(from, jump)
                   /\ jump.elide \/ ~jump.to.used
                   /\ Effects(run.stmts) = gen_settags(EffFalltags(from))
    /\ (op = "gen_goto_after_fill" /\ opts.storable_state /\ opts.fill_eof # NOEOF) =>
          IsTransitionTo(ExecNoInput(code).stmts, EffFalltags(from), from.fallback.id)

C2_Witness ==
    /\ op = "gen_goto"
    /\ jump.eof
    /\ FallbackInFill
    /\ opts.fill_enable
    /\ opts.fill_check
    /\ gen_fill_falllback(from, jump) = <<>>
    /\ jump.tags # TCID0
    /\ ExecNoInput(code).done

Consuming == {"MATCH", "INITIAL", "SAVE"}

C6_OmitPeek ==
    op = "emit_state" =>
        IF from.kind = "MOVE" \/ (Len(from.go.span) = 1 /\ from.go.span[1] # "MOVE")
        THEN CountKind(code, "peek") = 0
        ELSE from.kind \in Consuming =>
               /\ CountKind(code, "peek") = 1
               /\ \E p \in Positions(code, "peek") :
                     \A i \in 1 .. Len(code) :
                        (code[i].k = "slabel"
                           \/ (opts.fill_eof = NOEOF /\ HasFill(<<code[i]>>)))
                        => i < p

C6_Witness ==
    /\ op = "emit_state"
    /\ from.kind = "MATCH"
    /\ Len(from.go.span) = 1
    /\ from.go.span[1] = "MOVE"
    /\ opts.fill_enable
    /\ opts.fill_eof = NOEOF
    /\ HasFill(code)
    /\ Positions(code, "slabel") # {}
    /\ CountKind(code, "peek") = 1

\* tests of the YYFILL result in a list: branches on the call or on the
\* variable that holds its result
FillTests(l) ==
    {i \in 1 .. Len(Flatten(l)) :
        Flatten(l)[i].k = "if" /\ Flatten(l)[i].cond.c \in {"call", "var"}}

\* the YYFILL call of the EOF rule (no length argument)
EofFillCall(tested) == [call |-> "fill", len |-> <<>>, tested |-> tested]

\* the list resumes at the fill point of state s
IsResume(l, s) ==
    CASE opts.code_model = "GOTO_LABEL" ->
           l = <<[k |-> "goto", label |-> [l |-> "fill", index |-> s.fill_state.fill_label]]>>
      [] opts.code_model = "LOOP_SWITCH" ->
           l = <<[k |-> "assign_state", next |-> StateLabel(s.fill_state.id)],
                 [k |-> "continue"]>>
      [] opts.code_model = "REC_FUNC" ->
           Len(l) = 1 /\ l[1].k = "tailcall" /\ l[1].fn = StateLabel(s.fill_state.id)

IsEffect(x) == x.k \notin {"if", "fill", "state_set"}

\* the statements of the list other than guards, fills and state stores are
\* the transition of jump j: its tags, its skip, its transfer if not elided
IsOwnTransition(l, j) ==
    LET nf == SelectSeq(Flatten(l), IsEffect)
        tr == ~j.elide /\ j.to.used
        body == IF tr THEN SubSeq(nf, 1, Len(nf) - TransferLen) ELSE nf
    IN  /\ tr => EndsWithTransferTo(nf, j.to.id)
        /\ body = gen_settags(j.tags) \o (IF j.skip THEN <<[k |-> "skip"]>> ELSE <<>>)

StorableEofFill ==
    op = "gen_goto" /\ jump.eof /\ opts.fill_enable /\ opts.storable_state
        /\ opts.fill_check

\* C7 (as stated): with the EOF rule, storable state and fill_check the code
\* of a transition that needs a fill is a guard, in it the state store and
\* the fill call, and then a test of the fill result.
C7_Original ==
    StorableEofFill =>
        /\ code[1].k = "if" /\ code[1].cond.c = "less_than" /\ code[1].cond.n = 1
        /\ FillTests(code) # {}

\* C7 (amended): with fill enabled, the EOF rule, storable state and
\* fill_check, the code of a transition that needs a fill is a less-than
\* guard for one character, holding the store of the fill state's fill label
\* index and the fill call as a plain statement, followed by the transition
\* itself; the result of the fill is tested nowhere.  The state dispatch
\* (gen_goto_after_fill) tests the less-than guard again: under it the
\* inlined fallback transition, otherwise the resume at the fill point.
C7_StorableFill ==
    /\ StorableEofFill =>
          /\ code[1].k = "if" /\ code[1].cond.c = "less_than" /\ code[1].cond.n = 1
          /\ code[1].then =
                <<[k |-> "state_set", state |-> from.fill_state.fill_label],
                  [k |-> "fill", call |-> EofFillCall(FALSE), naked |-> opts.fill_naked]>>
          /\ FillTests(code) = {}
          /\ IsOwnTransition(IF opts.code_model = "REC_FUNC"
                             THEN code[1].else ELSE Tail(code), jump)
    /\ (op = "gen_goto_after_fill" /\ opts.storable_state /\ opts.fill_eof # NOEOF) =>
          /\ code[1].k = "if" /\ code[1].cond.c = "less_than" /\ code[1].cond.n = 1
          /\ IsTransitionTo(code[1].then, EffFalltags(from), from.fallback.id)
          /\ IsResume(IF opts.code_model = "REC_FUNC" THEN code[1].else ELSE Tail(code),
                      from)
          /\ FillTests(code) = {}

C7_Witness ==
    /\ StorableEofFill
    /\ opts.code_model = "GOTO_LABEL"
    /\ jump.tags # TCID0
    /\ Len(code) = 3
    /\ Len(code[1].then) = 2
    /\ code[3] = [k |-> "goto", label |-> StateLabel(jump.to.id)]

TestedEofFill ==
    op = "gen_goto" /\ jump.eof /\ opts.fill_enable /\ ~opts.storable_state

\* C8 (as stated): with fill enabled, the EOF rule and no storable state the
\* fill call is the condition of a branch.
C8_Original ==
    TestedEofFill =>
        \E i \in 1 .. Len(Flatten(code)) :
            Flatten(code)[i].k = "if" /\ Flatten(code)[i].cond.c = "call"

\* C8 (amended): with fill enabled, the EOF rule and no storable state the
\* result of the fill call is tested by a branch: the call is the condition
\* if var_fill is empty, otherwise the call is a statement of its own and the
\* condition is the var_fill variable.  On success the branch resumes at the
\* fill point, on failure the fallback transition is taken (the transition
\* itself where the fallback is elided).  In every other fill-enabled
\* configuration the fill call is a plain statement, its result is tested
\* nowhere and no fallback transition is emitted next to it.
C8_FillResultTest ==
    /\ TestedEofFill =>
          LET body == IF opts.fill_check THEN code[1].then ELSE code
              p == IF opts.var_fill = "" THEN 1 ELSE 2
              t == body[p]
          IN  /\ opts.fill_check => (code[1].k = "if" /\ code[1].cond.c = "less_than")
              /\ Cardinality(FillTests(code)) = 1
              /\ t.k = "if"
              /\ IF opts.var_fill = ""
                 THEN t.cond = [c |-> "call", call |-> EofFillCall(~opts.fill_naked)]
                 ELSE /\ body[1] = [k |-> "fill", call |-> EofFillCall(~opts.fill_naked),
                                    naked |-> opts.fill_naked]
                      /\ t.cond = [c |-> "var", var |-> opts.var_fill]
              /\ IsResume(t.then, from)
              /\ (Coincides(from, jump) /\ ~RecFill)
                 \/ IsTransitionTo(Effects(ExecNoInput(code).stmts),
                                   EffFalltags(from), from.fallback.id)
    /\ (op \in {"gen_goto", "emit_state"} /\ opts.fill_enable
           /\ ~(opts.fill_eof # NOEOF /\ ~opts.storable_state)) =>
          /\ FillTests(code) = {}
          /\ \A i \in 1 .. Len(Flatten(code)) :
                Flatten(code)[i].k = "fill" => ~Flatten(code)[i].call.tested
    /\ (op = "gen_goto" /\ jump.eof /\ opts.fill_enable /\ opts.storable_state) =>
          /\ CountKind(code, "fill") = 1
          /\ IsOwnTransition(code, jump)
    /\ (op = "emit_state" /\ opts.fill_enable /\ opts.fill_eof = NOEOF) =>
          /\ CountKind(code, "fill") <= 1
          /\ \A i \in 1 .. Len(code) :
                (HasFill(<<code[i]>>) /\ code[i].k = "if") =>
                    /\ code[i].else = <<>>
                    /\ \A n \in 1 .. Len(code[i].then) :
                          code[i].then[n].k \in {"state_set", "fill"}
          /\ (from.kind \in {"MATCH", "SAVE"} /\ from.go.kind = "IFL") =>
                Cardinality({i \in 1 .. Len(Flatten(code)) : IsTransfer(Flatten(code)[i])})
                = Cardinality({i \in 1 .. Len(from.go.jumps) :
                                  ~from.go.jumps[i].elide /\ from.go.jumps[i].to.used})

C8_Witness ==
    /\ TestedEofFill
    /\ opts.var_fill # ""
    /\ opts.fill_check
    /\ opts.code_model = "GOTO_LABEL"
    /\ ~Coincides(from, jump)
    /\ code[1].then[1].k = "fill"
    /\ code[1].then[2].cond.c = "var"
    /\ IsResume(code[1].then[2].then, from)

\* the command list given to gen_settags
Cmds == dfa.tcpool[1]

TagsEmitted == op = "gen_settags" /\ ~dfa.oldstyle_ctxmarker

IsSave(c) == c.rhs = TAGVER_ZERO

IsNegSave(c) == c.history[1] = TAGVER_BOTTOM

IsPosSave(c) == c.history[1] # TAGVER_BOTTOM

STagExpr(ver) == [tagver |-> ver, mtag |-> FALSE]

MTagExpr(ver) == [tagver |-> ver, mtag |-> TRUE]

LhsExprs(l) == [i \in 1 .. Len(l) |-> STagExpr(l[i].lhs)]

\* number of save commands at the head of a list
RECURSIVE SavePrefix(_)
SavePrefix(l) == IF l # <<>> /\ IsSave(Head(l)) THEN 1 + SavePrefix(Tail(l)) ELSE 0

SettagForm == IF opts.api_style = "FUNCTIONS" THEN "stmt" ELSE "text"

\* s-tag statements expected with vector assignments: for every maximal run
\* of saves the null assignment of its negative tags, then the cursor
\* assignment of its positive tags; a copy is one assignment
RECURSIVE ExpVector(_)
ExpVector(l) ==
    IF l = <<>> THEN <<>>
    ELSE IF IsSave(Head(l)) THEN
        LET n == SavePrefix(l)
            run == SubSeq(l, 1, n)
            neg == LhsExprs(SelectSeq(run, IsNegSave))
            pos == LhsExprs(SelectSeq(run, IsPosSave))
        IN  (IF neg # <<>> THEN <<[k |-> "assign", lhs |-> neg, rhs |-> NullExpr]>> ELSE <<>>)
            \o (IF pos # <<>> THEN <<[k |-> "assign", lhs |-> pos, rhs |-> CursorExpr]>>
                ELSE <<>>)
            \o ExpVector(SubSeq(l, n + 1, Len(l)))
    ELSE IF Head(l).history[1] = TAGVER_ZERO THEN
        <<[k |-> "assign", lhs |-> <<STagExpr(Head(l).lhs)>>, rhs |-> STagExpr(Head(l).rhs)]>>
        \o ExpVector(Tail(l))
    ELSE ExpVector(Tail(l))

\* s-tag statements expected with one tag-set per save
RECURSIVE ExpGeneric(_)
ExpGeneric(l) ==
    IF l = <<>> THEN <<>>
    ELSE (IF IsSave(Head(l)) THEN
             <<[k |-> "settag", tag |-> STagExpr(Head(l).lhs),
                negative |-> IsNegSave(Head(l)), history |-> FALSE, form |-> SettagForm]>>
          ELSE IF Head(l).history[1] = TAGVER_ZERO THEN
             <<[k |-> "assign", lhs |-> <<STagExpr(Head(l).lhs)>>,
                rhs |-> STagExpr(Head(l).rhs)]>>
          ELSE <<>>)
         \o ExpGeneric(Tail(l))

IsSTagStmt(x) ==
    \/ x.k = "assign" /\ ~x.lhs[1].mtag
    \/ x.k = "settag" /\ ~x.history

IsMTagStmt(x) ==
    \/ x.k = "assign" /\ x.lhs[1].mtag
    \/ x.k = "settag" /\ x.history

RECURSIVE HistLen(_)
HistLen(h) == IF Head(h) = TAGVER_ZERO THEN 0 ELSE 1 + HistLen(Tail(h))

\* m-tag statements expected for the save-with-history commands of a list
RECURSIVE ExpHistory(_)
ExpHistory(l) ==
    IF l = <<>> THEN <<>>
    ELSE LET c == Head(l)
             n == HistLen(c.history)
         IN  (IF c.rhs # TAGVER_ZERO /\ n > 0 THEN
                 (IF c.lhs # c.rhs
                  THEN <<[k |-> "assign", lhs |-> <<MTagExpr(c.lhs)>>, rhs |-> MTagExpr(c.rhs)]>>
                  ELSE <<>>)
                 \o [i \in 1 .. n |->
                        [k |-> "settag", tag |-> MTagExpr(c.lhs),
                         negative |-> (c.history[n + 1 - i] = TAGVER_BOTTOM),
                         history |-> TRUE, form |-> SettagForm]]
              ELSE <<>>)
             \o ExpHistory(Tail(l))

\* C10: for every save-with-history command gen_settags emits a copy
\* lhs := rhs iff lhs # rhs, followed directly by one m-tag set per history
\* element before the TAGVER_ZERO terminator, last stored element first, a
\* set being negative iff its element is TAGVER_BOTTOM.
C10_HistoryReversed ==
    TagsEmitted =>
        /\ SelectSeq(code, IsMTagStmt) = ExpHistory(Cmds)
        /\ \A i, j \in 1 .. Len(code) :
              (i < j /\ IsMTagStmt(code[i]) /\ IsMTagStmt(code[j])) =>
                  \A m \in i .. j : IsMTagStmt(code[m])

C10_Witness ==
    /\ TagsEmitted
    /\ Len(Cmds) = 1
    /\ Cmds[1].lhs # Cmds[1].rhs
    /\ Cmds[1].history = <<1, TAGVER_BOTTOM, TAGVER_ZERO>>
    /\ Len(code) = 3
    /\ code[1].k = "assign"
    /\ code[2].negative
    /\ ~code[3].negative

\* the rule given to emit_rule and its tags (tag t is RuleTags[t + 1])
TheRule == dfa.rules[1]

RuleTags == SubSeq(dfa.tags, TheRule.ltag + 1, TheRule.htag)

\* the statements that end the prelude of a rule: emit_rule's own
ActionKinds ==
    {"skeleton_action", "state_set", "cond_set", "setup", "line_info_input", "semact",
     "cond_goto", "assign_state", "continue", "tailcall"}

\* the prelude of the rule: the code before the first statement of the action
Prelude ==
    LET stops == {i \in 1 .. Len(code) : code[i].k \in ActionKinds}
    IN  SubSeq(code, 1, IF stops = {} THEN Len(code)
                        ELSE (CHOOSE i \in stops : \A j \in stops : i <= j) - 1)

NmatchExpr == [fin |-> "yynmatch", idx |-> <<>>, wrapped |-> opts.code_model = "REC_FUNC"]

IsNmatch(x) == x.k = "assign" /\ x.lhs = <<NmatchExpr>>

\* C11: for a rule with ncap > 0 the code of the rule starts with the
\* assignment of ncap to yynmatch (wrapped in the tags expression in rec/func
\* mode), before every tag statement and before the action, in every code
\* model and for both targets; there is no other assignment to yynmatch, and
\* none at all for a rule with ncap = 0.
C11_NmatchFirst ==
    op = "emit_rule" =>
        LET n == Cardinality({i \in 1 .. Len(Flatten(code)) : IsNmatch(Flatten(code)[i])})
        IN  IF TheRule.ncap > 0
            THEN /\ n = 1
                 /\ code[1] = [k |-> "assign", lhs |-> <<NmatchExpr>>,
                               rhs |-> [num |-> TheRule.ncap]]
                 /\ Len(Prelude) >= 1
            ELSE n = 0

C11_Witness ==
    /\ op = "emit_rule"
    /\ TheRule.ncap = 2
    /\ opts.code_model = "REC_FUNC"
    /\ opts.target = "SKELETON"
    /\ IsNmatch(code[1])
    /\ Len(Prelude) = 4
    /\ code[5].k = "skeleton_action"

\* an expression that names an m-tag
ExprHistory(e) ==
    \/ "mtag" \in DOMAIN e /\ e.mtag
    \/ "base" \in DOMAIN e /\ "mtag" \in DOMAIN e.base /\ e.base.mtag

\* a statement that is, or names, a history (m-tag) operation
UsesHistory(x) ==
    CASE x.k \in {"settag", "shift"} ->
            x.history \/ (x.k = "settag" /\ ExprHistory(x.tag))
              \/ (x.k = "shift" /\ x.tag # <<>> /\ ExprHistory(x.tag[1]))
      [] x.k = "assign" ->
            ExprHistory(x.rhs) \/ \E i \in 1 .. Len(x.lhs) : ExprHistory(x.lhs[i])
      [] x.k = "if" -> ExprHistory(x.cond.lhs) \/ ExprHistory(x.cond.rhs)
      [] x.k = "restore_ctx" -> x.tag # <<>> /\ ExprHistory(x.tag[1])
      [] OTHER -> FALSE

\* C12: a fixed tag has no history (the assertion of gen_fintags), and
\* every statement of the prelude that names a history operation or an m-tag
\* expression is the assignment of a variable tag with history to its own
\* final tags: nothing emitted for a fixed tag does.
C12_FixedTagsNoHistory ==
    op = "emit_rule" =>
        /\ \A t \in 1 .. Len(RuleTags) : RuleTags[t].fixed => ~RuleTags[t].history
        /\ \A i \in 1 .. Len(Flatten(Prelude)) :
              LET x == Flatten(Prelude)[i]
              IN  UsesHistory(x) =>
                    \E t \in 1 .. Len(RuleTags) :
                        /\ ~RuleTags[t].fixed /\ RuleTags[t].history
                        /\ x = [k |-> "assign", lhs |-> expand_fintags(RuleTags[t]),
                                rhs |-> [tagver |-> dfa.finvers[TheRule.ltag + t],
                                         mtag |-> TRUE]]

C12_Witness ==
    /\ op = "emit_rule"
    /\ opts.api = "CUSTOM"
    /\ \E t \in 1 .. Len(RuleTags) : ~RuleTags[t].fixed /\ RuleTags[t].history
    /\ \E t \in 1 .. Len(RuleTags) :
          /\ RuleTags[t].fixed /\ ~RuleTags[t].trailing /\ ~RuleTags[t].toplevel
          /\ RuleTags[t].dist > 0 /\ RuleTags[t].base # RIGHTMOST
    /\ \E i \in 1 .. Len(Flatten(code)) :
          Flatten(code)[i].k = "shift" /\ Flatten(code)[i].tag # <<>>

\* the final-tag expressions of the variable tags of the rule
VarFins ==
    UNION {{expand_fintags(RuleTags[t])[i] : i \in 1 .. Len(expand_fintags(RuleTags[t]))} :
            t \in {u \in 1 .. Len(RuleTags) : ~RuleTags[u].fixed /\ ~RuleTags[u].kind = "fictive"}}

\* the inner fixed tags shifted behind the fence: custom API, based on a
\* variable tag, non-zero distance
IsFenced(tag) ==
    /\ opts.api = "CUSTOM"
    /\ tag.kind # "fictive" /\ tag.fixed /\ ~tag.trailing /\ ~tag.toplevel
    /\ tag.base # RIGHTMOST /\ tag.dist # 0

FencedTags == SelectSeq(RuleTags, IsFenced)

BaseExpr(tag) == [tagver |-> dfa.finvers[tag.base + 1], mtag |-> FALSE]

\* place of a prelude statement in the order of the prelude: 0 the match
\* count, 1 variable tags, 2 fixed tags, 3 trailing context (the cursor),
\* 4 the fence, 5 the store of the no-match value, 6 the guarded shifts
Rank(x) ==
    CASE IsNmatch(x) -> 0
      [] x.k = "assign" /\ x.lhs[1] \in VarFins -> 1
      [] x.k \in {"assign", "assign_op"} /\ x.lhs = <<CursorExpr>> -> 3
      [] x.k = "restore_ctx" -> 3
      [] x.k = "shift" /\ x.tag = <<>> -> 3
      [] x.k = "text" -> 4
      [] x.k = "settag" /\ x.negative -> 5
      [] x.k = "if" /\ x.then # <<>> /\ x.then[1].k = "shift" -> 6
      [] OTHER -> 2

\* C13: the prelude of a rule is ordered: variable-tag assignments, then
\* fixed-tag assignments, then the trailing-cursor restore.  If some inner
\* fixed tag with non-zero distance is based on a variable tag under the
\* custom API, the base of the first such tag is negtag: after all of the
\* above come the fence, one statement storing the negative value in negtag,
\* and then one shift per such tag, in order, each guarded by
\* "first fintag != negtag"; otherwise there is no fence, no negative store
\* and no guarded shift.
C13_PreludeOrder ==
    op = "emit_rule" =>
        LET pre == Prelude
            post == SelectSeq(pre, LAMBDA x : Rank(x) = 6)
        IN  /\ \A i, j \in 1 .. Len(pre) : i < j => Rank(pre[i]) <= Rank(pre[j])
            /\ IF FencedTags = <<>>
               THEN \A i \in 1 .. Len(pre) : Rank(pre[i]) <= 3
               ELSE /\ SelectSeq(pre, LAMBDA x : Rank(x) \in {4, 5}) =
                         <<[k |-> "text", text |-> "/* materialize no-match value */"],
                           [k |-> "settag", tag |-> BaseExpr(FencedTags[1]),
                            negative |-> TRUE, history |-> FALSE, form |-> SettagForm]>>
                    /\ Len(post) = Len(FencedTags)
                    /\ \A i \in 1 .. Len(post) :
                          /\ post[i].cond = [c |-> "ne",
                                             lhs |-> expand_fintags(FencedTags[i])[1],
                                             rhs |-> BaseExpr(FencedTags[1])]
                          /\ post[i].then =
                                <<[k |-> "shift", tag |-> <<expand_fintags(FencedTags[i])[1]>>,
                                   shift |-> -FencedTags[i].dist, history |-> FALSE,
                                   form |-> SettagForm]>>
                          /\ ~post[i].has_else

C13_Witness ==
    /\ op = "emit_rule"
    /\ opts.api_style = "FREEFORM"
    /\ Len(FencedTags) = 2
    /\ FencedTags[1].base # FencedTags[2].base
    /\ FencedTags[1].kind # FencedTags[2].kind
    /\ Len(Prelude) = 8
    /\ Rank(Prelude[5]) = 4
    /\ Rank(Prelude[8]) = 6

\* an inner non-trailing fixed tag with several final tags that is shifted
IsInnerShifted(tag) ==
    /\ tag.kind # "fictive" /\ tag.fixed /\ ~tag.trailing /\ ~tag.toplevel
    /\ tag.base # RIGHTMOST /\ tag.dist # 0
    /\ Len(expand_fintags(tag)) > 1

\* the statement is a guard around a shift of the final tag first
IsGuardedShift(x, first) ==
    /\ x.k = "if"
    /\ x.then # <<>>
    /\ \/ x.then[1].k = "shift" /\ x.then[1].tag = <<first>>
       \/ x.then[1].k = "assign_op" /\ x.then[1].lhs = <<first>>

\* C14 (as stated): for every inner non-trailing fixed tag with several
\* final tags, under both APIs, the prelude assigns the base to the first final
\* tag, shifts the first final tag under a guard, and afterwards assigns the
\* first final tag to every remaining final tag.
C14_Original ==
    op = "emit_rule" =>
        \A t \in 1 .. Len(RuleTags) :
            IsInnerShifted(RuleTags[t]) =>
                LET fintags == expand_fintags(RuleTags[t])
                    pre == Prelude
                IN  \E i, j, n \in 1 .. Len(pre) :
                        /\ i < j /\ j < n
                        /\ pre[i] = [k |-> "assign", lhs |-> <<fintags[1]>>,
                                     rhs |-> BaseExpr(RuleTags[t])]
                        /\ IsGuardedShift(pre[j], fintags[1])
                        /\ pre[n] = [k |-> "assign", lhs |-> Tail(fintags),
                                     rhs |-> fintags[1]]

\* the failing input of C14: custom API, an inner capture tag of two groups
\* at distance 2 from a variable tag; the second final tag is assigned nowhere
C14_Witness ==
    /\ op = "emit_rule"
    /\ opts.api = "CUSTOM"
    /\ Len(RuleTags) = 3
    /\ IsInnerShifted(RuleTags[3])
    /\ \A i \in 1 .. Len(Flatten(code)) :
          Flatten(code)[i].k = "assign" =>
              expand_fintags(RuleTags[3])[2] \notin
                  {Flatten(code)[i].lhs[n] : n \in 1 .. Len(Flatten(code)[i].lhs)}

\* the statement tests the accept variable
TestsAccept(x) ==
    \/ x.k = "if" /\ x.cond.c = "accept"
    \/ x.k = "switch" /\ x.expr = "yyaccept"
    \/ x.k = "block"

\* C15: the code of an ACCEPT state with a single accept row is, after the
\* state's label, the restore, the tags of the row and an unconditional
\* transfer to the row's state, with no test of the accept variable; a SAVE
\* or INITIAL state of a DFA with a single accept row stores nothing in the
\* accept variable.
C15_SingleAccept ==
    /\ (op = "emit_state" /\ from.kind = "ACCEPT" /\ Len(from.accepts) = 1) =>
          LET n0 == Len(emit_state(from))
              row == from.accepts[1]
              tags == gen_settags(row.tags)
              body == SubSeq(code, n0 + 1, Len(code))
          IN  /\ body[1] = [k |-> "restore"]
              /\ SubSeq(body, 2, 1 + Len(tags)) = tags
              /\ EndsWithTransferTo(SubSeq(body, 1, 1 + Len(tags) + TransferLen),
                                    row.state.id)
              /\ \A i \in 1 .. Len(Flatten(code)) : ~TestsAccept(Flatten(code)[i])
    /\ (op = "emit_state" /\ from.kind \in {"SAVE", "INITIAL"} /\ from.naccepts <= 1) =>
          \A i \in 1 .. Len(Flatten(code)) :
              Flatten(code)[i].k \notin {"accept", "assign_accept"}

C15_Witness ==
    /\ op = "emit_state"
    /\ from.kind = "ACCEPT"
    /\ Len(from.accepts) = 1
    /\ from.accepts[1].tags # TCID0
    /\ opts.code_model = "LOOP_SWITCH"
    /\ code[1] = [k |-> "restore"]
    /\ code[3].k = "assign_state"

\* the labels reached by the dispatch l when the condition getter returns v:
\* a goto ends the execution
RECURSIVE ExecCond(_, _)
ExecCond(l, v) ==
    IF l = <<>> THEN <<>>
    ELSE LET x == Head(l)
             r == CASE x.k = "goto" -> <<x.label>>
                    [] x.k = "if" /\ x.cond.c = "lt" ->
                          IF v < x.cond.rhs THEN ExecCond(x.then, v) ELSE ExecCond(x.else, v)
                    [] OTHER -> <<>>
         IN  IF r # <<>> THEN r ELSE ExecCond(Tail(l), v)

\* the number of goto statements of a dispatch of nested ifs
RECURSIVE CountGotos(_)
CountGotos(l) ==
    IF l = <<>> THEN 0
    ELSE LET x == Head(l)
         IN  (CASE x.k = "goto" -> 1
                [] x.k = "if" -> CountGotos(x.then) + CountGotos(x.else)
                [] OTHER -> 0) + CountGotos(Tail(l))

\* C16: for a block with n >= 1 conditions, the nested ifs produced by
\* gen_cond_goto_binary(0, n - 1), executed with the condition getter
\* returning the number of a condition c of the block, reach one goto, the
\* goto to the label of c (cond_label_prefix + c.name); the tree has one
\* goto per condition.
C16_CondGotoBinary ==
    (op = "gen_cond_goto" /\ opts.target # "DOT" /\ ~opts.computed_gotos /\ opts.nested_ifs)
    => /\ code = gen_cond_goto_binary(0, Len(block.conds) - 1)
       /\ CountGotos(code) = Len(block.conds)
       /\ \A i \in 1 .. Len(block.conds) :
             ExecCond(code, cid(opts, block.conds, i)) = <<CondLabel(block.conds[i].name)>>

C16_Witness ==
    /\ op = "gen_cond_goto" /\ opts.target # "DOT"
    /\ ~opts.computed_gotos /\ opts.nested_ifs
    /\ Len(block.conds) = 3
    /\ code[1].cond.rhs = 1
    /\ code[1].then = <<[k |-> "goto", label |-> CondLabel("c1")]>>
    /\ code[1].else[1].k = "if"
    /\ code[1].else[1].cond.rhs = 2
    /\ ExecCond(code, 1) = <<CondLabel("c2")>>

\* C17: in loop/switch mode the declaration of yystate is signed and
\* initialized by the state getter when storable_state is on, whether or
\* not start_conditions is on; unsigned and initialized by the condition
\* getter when only start_conditions is on; unsigned and initialized to 0
\* otherwise.
C17_YystateDef ==
    op = "gen_yystate_def" =>
        /\ opts.code_model = "LOOP_SWITCH"
        /\ Len(code) = 1
        /\ code[1].k = "var" /\ code[1].name = "yystate"
        /\ (code[1].type = "INT") = opts.storable_state
        /\ (code[1].type = "UINT") = ~opts.storable_state
        /\ opts.storable_state => code[1].init = output_state_get
        /\ (~opts.storable_state /\ opts.start_conditions) => code[1].init = output_cond_get
        /\ (~opts.storable_state /\ ~opts.start_conditions) => code[1].init = "0"

C17_Witness ==
    /\ op = "gen_yystate_def"
    /\ opts.storable_state /\ opts.start_conditions
    /\ code = <<[k |-> "var", type |-> "INT", name |-> "yystate", init |-> "YYGETSTATE"]>>

\* the blocks a types:re2c directive refers to: the listed blocks, or every
\* block of the code and of the header
EnumBlocks ==
    IF from.block_names = <<>> THEN output.cblocks \o output.hblocks
    ELSE find_blocks(from.block_names).list

\* the conditions of a list of blocks, qualified by the prefix of their block
RECURSIVE QualifiedConds(_)
QualifiedConds(blocks) ==
    IF blocks = <<>> THEN <<>>
    ELSE LET b == Head(blocks)
         IN  [i \in 1 .. Len(b.conds) |->
                StartCond(b.opts.cond_enum_prefix \o b.conds[i].name, b.conds[i].number)]
             \o QualifiedConds(Tail(blocks))

\* the conditions of l whose name does not appear earlier in l
FirstAppearances(l) ==
    LET F[i \in 0 .. Len(l)] ==
            IF i = 0 THEN <<>>
            ELSE IF \E j \in 1 .. i - 1 : l[j].name = l[i].name THEN F[i - 1]
            ELSE Append(F[i - 1], l[i])
    IN  F[Len(l)]

\* two conditions of l with the same name and different numbers
Collides(l) ==
    \E i, j \in 1 .. Len(l) : l[i].name = l[j].name /\ l[i].number # l[j].number

\* the names of the conditions in the expansion of the directive
EmittedNames(x) ==
    CASE x.k = "ENUM" -> x.ids
      [] x.k = "RAW" -> [i \in 1 .. Len(x.data) |-> x.data[i].cond]
      [] OTHER -> <<>>

\* C18: types:re2c (target CODE, every listed block found) gathers the
\* conditions of the referenced blocks under their prefix-qualified names.
\* If two of them have the same qualified name and different numbers the
\* expansion fails and the directive is left unexpanded: no enum and no
\* text.  Otherwise it succeeds and the result has each qualified name
\* once, in the order of first appearance: the later conditions with the
\* same name (and the same number) are skipped.
C18_CondDedupe ==
    (op = "expand_cond_enum" /\ output.total_opts.target = "CODE"
        /\ find_blocks(from.block_names).ret = "OK")
    => LET all == QualifiedConds(EnumBlocks)
           names == EmittedNames(code[1])
       IN  IF Collides(all)
           THEN ret = "FAIL" /\ code[1] = from /\ code[1].k = "COND_ENUM"
           ELSE /\ ret = "OK"
                /\ code[1].k \in {"ENUM", "RAW", "EMPTY"}
                /\ names = [i \in 1 .. Len(FirstAppearances(all)) |->
                              FirstAppearances(all)[i].name]
                /\ \A i, j \in 1 .. Len(names) : names[i] = names[j] => i = j
                /\ code[1].k = "ENUM" /\ code[1].nums # <<>> =>
                      code[1].nums = [i \in 1 .. Len(FirstAppearances(all)) |->
                                        FirstAppearances(all)[i].number]

\* the block b1 qualifies c1 by yy and the block b2 has yyc1, with the same
\* number: the second one is skipped
C18_Witness ==
    /\ op = "expand_cond_enum" /\ ret = "OK"
    /\ from.block_names = <<>>
    /\ output.cblocks[1].opts.cond_enum_prefix = "yy"
    /\ QualifiedConds(EnumBlocks) =
          <<StartCond("yyc1", 1), StartCond("yyc2", 0), StartCond("c2", 0), StartCond("yyc1", 1)>>
    /\ code = <<[k |-> "ENUM", name |-> "YYCONDTYPE", ids |-> <<"yyc1", "yyc2", "c2">>,
                 nums |-> <<1, 0, 0>>]>>

\* the conditions c1 = 0 and c2 = 1 are defined in two separate blocks, with
\* no prefix, and types:re2c refers to both
TwoCondsInTwoBlocks ==
    /\ op = "expand_cond_enum" /\ from.format = NULL /\ from.block_names = <<>>
    /\ output.total_opts.target = "CODE"
    /\ QualifiedConds(EnumBlocks) = <<StartCond("c1", 0), StartCond("c2", 1)>>
    /\ Len(EnumBlocks) = 2 /\ Len(EnumBlocks[1].conds) = 1

\* C19: the enum of types:re2c has explicit numbers, the number of each
\* condition, in loop/switch and rec/func modes, and is a bare list of
\* names in goto/label mode; for c1 = 0 and c2 = 1 defined in two separate
\* blocks it is {c1 = 0, c2 = 1} in loop/switch mode and {c1, c2} in
\* goto/label mode.
C19_CondEnumNumbers ==
    /\ (op = "expand_cond_enum" /\ code[1].k = "ENUM") =>
          LET all == QualifiedConds(EnumBlocks)
          IN  IF output.total_opts.code_model = "GOTO_LABEL"
              THEN code[1].nums = <<>>
              ELSE /\ Len(code[1].nums) = Len(code[1].ids)
                   /\ \A i \in 1 .. Len(code[1].ids) :
                         /\ \E j \in 1 .. Len(all) : all[j] = StartCond(code[1].ids[i], code[1].nums[i])
                         /\ \A j \in 1 .. Len(all) :
                               all[j].name = code[1].ids[i] => all[j].number = code[1].nums[i]
    /\ TwoCondsInTwoBlocks =>
          /\ ret = "OK" /\ code[1].k = "ENUM" /\ code[1].ids = <<"c1", "c2">>
          /\ output.total_opts.code_model = "LOOP_SWITCH" => code[1].nums = <<0, 1>>
          /\ output.total_opts.code_model = "GOTO_LABEL" => code[1].nums = <<>>

C19_Witness ==
    /\ TwoCondsInTwoBlocks
    /\ output.total_opts.code_model = "LOOP_SWITCH"
    /\ output.hblocks # <<>>
    /\ code = <<[k |-> "ENUM", name |-> "YYCONDTYPE", ids |-> <<"c1", "c2">>, nums |-> <<0, 1>>]>>

\* the same two conditions in goto/label mode
C19_BareNames ==
    /\ TwoCondsInTwoBlocks
    /\ output.total_opts.code_model = "GOTO_LABEL"
    /\ code = <<[k |-> "ENUM", name |-> "YYCONDTYPE", ids |-> <<"c1", "c2">>, nums |-> <<>>]>>

\* the blocks that contribute to the switch of a getstate:re2c directive:
\* the blocks of the current list that are not use blocks if the directive
\* has no names, the listed blocks otherwise
Contributing ==
    IF from.block_names = <<>>
    THEN SelectSeq(pblocks, LAMBDA b : b.kind # "USE")
    ELSE [i \in 1 .. Len(from.block_names) |->
            LET all == output.cblocks \o output.hblocks
            IN  all[CHOOSE n \in 1 .. Len(all) :
                       /\ all[n].name = from.block_names[i]
                       /\ \A m \in 1 .. n - 1 : all[m].name # from.block_names[i]]]

\* the first contributing block that generates code
FirstContributing ==
    LET gen == SelectSeq(Contributing, LAMBDA b : b.start_label # NULL)
    IN  gen[1]

\* the fill-goto entries of a list of blocks, in order
RECURSIVE FillEntries(_)
FillEntries(blocks) ==
    IF blocks = <<>> THEN <<>> ELSE Head(blocks).fill_goto \o FillEntries(Tail(blocks))

\* the switch of the expansion, and the body it runs on the state v
StateSwitch == code[1].stmts[1]

CaseBody(sw, v) ==
    LET hits == {i \in 1 .. Len(sw.cases) : ~sw.cases[i].default /\ sw.cases[i].number = v}
        defs == {i \in 1 .. Len(sw.cases) : sw.cases[i].default}
    IN  IF hits # {} THEN sw.cases[CHOOSE i \in hits : TRUE].body
        ELSE sw.cases[CHOOSE i \in defs : TRUE].body

\* a jump to the start of block b: a goto or a tail call
JumpsToStart(l, b) ==
    \/ l = <<[k |-> "goto", label |-> StartLabel(b)]>>
    \/ l = <<[k |-> "tailcall", fn |-> StartLabel(b), yych |-> FALSE]>>

\* the parts of the claim that do not depend on the code model: the switch
\* on the stored state has the fill-goto cases of every contributing block,
\* one default case, the last one, and the start label of the first
\* contributing block is marked as used and nothing else changes
StateGotoShape ==
    LET sw == StateSwitch
        fills == SelectSeq(sw.cases, LAMBDA x : ~x.default /\ x.number # -1)
        entries == FillEntries(Contributing)
        o == IF from.block_names = <<>> THEN output.total_opts ELSE FirstContributing.opts
        all == output.cblocks \o output.hblocks
    IN  /\ sw.k = "switch" /\ sw.expr = output_state_get
        /\ fills = [i \in 1 .. Len(entries) |->
                      [default |-> FALSE, number |-> entries[i].state, body |-> entries[i].code]]
        /\ \A i \in 1 .. Len(sw.cases) : sw.cases[i].default = (i = Len(sw.cases))
        /\ (\E i \in 1 .. Len(sw.cases) : ~sw.cases[i].default /\ sw.cases[i].number = -1)
               = o.state_abort
        /\ o.state_abort => sw.cases[Len(sw.cases)].body = gen_abort
        /\ ~o.state_abort => sw.cases[Len(sw.cases)].body = CaseBody(sw, -1)
        /\ \A i \in 1 .. Len(all) :
              /\ all[i].loc = FirstContributing.loc => all[i].start_label.used
              /\ all[i].loc # FirstContributing.loc =>
                    all[i].start_label = NULL \/ ~all[i].start_label.used

\* C20 as stated: getstate:re2c expands to a switch on the stored state with
\* the fill-goto cases of every contributing block, that maps the state -1 to
\* the start of the first contributing block and has either an abort default
\* or a default that goes to that start, and the start label of that block is
\* marked as used.
C20_Original ==
    (op = "gen_state_goto" /\ ret = "OK" /\ output.total_opts.target = "CODE")
    => /\ StateGotoShape
       /\ JumpsToStart(CaseBody(StateSwitch, -1), FirstContributing)

\* C20, amended: as above in goto/label mode (a goto to the start label) and
\* in rec/func mode (a tail call of the start function); in loop/switch mode
\* the case of -1, or the default in its place, has an empty body: the
\* state -1 is left to the yystate switch of the block.
C20_StateGoto ==
    (op = "gen_state_goto" /\ ret = "OK" /\ output.total_opts.target = "CODE")
    => /\ StateGotoShape
       /\ CASE output.total_opts.code_model = "GOTO_LABEL" ->
                 /\ code[1].k = "BLOCK"
                 /\ CaseBody(StateSwitch, -1) =
                       <<[k |-> "goto", label |-> StartLabel(FirstContributing)]>>
            [] output.total_opts.code_model = "REC_FUNC" ->
                 /\ code[1].k = "FNDEF"
                 /\ CaseBody(StateSwitch, -1) =
                       <<[k |-> "tailcall", fn |-> StartLabel(FirstContributing), yych |-> FALSE]>>
            [] output.total_opts.code_model = "LOOP_SWITCH" ->
                 /\ code[1].k = "BLOCK"
                 /\ CaseBody(StateSwitch, -1) = <<>>

\* a global directive in goto/label mode with an abort default: the first
\* block is a use block, the second one has two YYFILL points
C20_Witness ==
    /\ op = "gen_state_goto" /\ ret = "OK"
    /\ output.total_opts.code_model = "GOTO_LABEL" /\ output.total_opts.target = "CODE"
    /\ from.block_names = <<>>
    /\ output.total_opts.state_abort
    /\ output.cblocks[1].kind = "USE" /\ output.cblocks[1].fill_goto # <<>>
    /\ FirstContributing.name = "b2"
    /\ output.cblocks[2].start_label.used
    /\ Len(StateSwitch.cases) = 4
    /\ StateSwitch.cases[1] =
          [default |-> FALSE, number |-> -1,
           body |-> <<[k |-> "goto", label |-> [l |-> "start", prefix |-> "zz", index |-> 10]]>>]
    /\ StateSwitch.cases[3].number = 11
    /\ StateSwitch.cases[4] = [default |-> TRUE, body |-> gen_abort]

\* C21: the condition-order warning is issued for a block only when its
\* dispatch can depend on the numbering of the conditions (a computed-goto
\* table, or nested ifs over more than one condition) and no header with
\* the condition type is exported; it is never issued when the dispatch is
\* a switch over condition names or a single unconditional jump.
C21_CondOrderWarning ==
    op = "gen_cond_goto" =>
        LET warned == output.warnings # <<>>
        IN  /\ Len(output.warnings) <= 1
            /\ warned =>
                  /\ opts.header_file = ""
                  /\ \/ code[1].k = "goto" /\ code[1].label.l = "cond_table"
                     \/ code[1].k = "if" /\ Len(block.conds) > 1
            /\ code[1].k = "switch" => ~warned
            /\ code = <<[k |-> "goto", label |-> CondLabel(block.conds[1].name)]>> => ~warned

C21_Witness ==
    /\ op = "gen_cond_goto"
    /\ output.warnings = <<"condition_order">>
    /\ ~opts.computed_gotos /\ opts.nested_ifs
    /\ Len(block.conds) = 2
    /\ code[1].k = "if"

\* a run of codegen_generate ends: it returns, with success or failure
RunEnds == op # op' /\ op' \in {"done", "failed"}

Generated(item) == item.k = "BLOCK" /\ "kind" \in DOMAIN item

\* the state switches that gen_state_goto_implicit put into a generated item
SwitchesOf(item) ==
    LET st == IF item.stmts[1].k = "recursive_functions" THEN item.stmts[1].funcs
              ELSE item.stmts
    IN  SelectSeq(st, LAMBDA x : /\ x.k \in {"BLOCK", "FNDEF"}
                                 /\ x.stmts[1].k = "switch"
                                 /\ x.stmts[1].expr = output_state_get)

\* the states that a state switch dispatches on
CaseStates(sw) ==
    {sw.stmts[1].cases[n].number :
        n \in {m \in 1 .. Len(sw.stmts[1].cases) : ~sw.stmts[1].cases[m].default}}

\* the fill states of a sequence of blocks
FillStates(blocks) ==
    UNION {{blocks[i].fill_goto[n].state : n \in 1 .. Len(blocks[i].fill_goto)} :
              i \in 1 .. Len(blocks)}

\* the non-use blocks among a sequence of blocks
NonUse(blocks) == SelectSeq(blocks, LAMBDA b : b.kind # "USE")

\* the state_goto flag at the beginning of the current run
StartFlag == from.state_goto \/ (pc.run = 2 /\ pc.stale)

\* the code block at position i has a generated item
HasGenerated(i) ==
    \E j \in 1 .. Len(output.cblocks[i].code) : Generated(output.cblocks[i].code[j])

\* the first non-use block of this run that reached gen_state_goto_implicit
FirstNonUse(i) ==
    /\ output.cblocks[i].kind # "USE"
    /\ \A i2 \in 1 .. i - 1 : output.cblocks[i2].kind = "USE" \/ ~HasGenerated(i2)

\* every block that has been through gen_state_goto_implicit: a use block
\* holds one state switch over its own fill states, a non-use block holds the
\* global state switch iff it is the first one and the flag was false
ImplicitSwitches ==
    (opts.storable_state /\ opts.target = "CODE" /\ opts.code_model # "LOOP_SWITCH") =>
        \A i \in 1 .. Len(output.cblocks) :
            \A j \in 1 .. Len(output.cblocks[i].code) :
                LET b == output.cblocks[i]
                    item == b.code[j]
                    sw == SwitchesOf(item)
                IN  Generated(item) =>
                        IF b.kind = "USE"
                        THEN /\ Len(sw) = 1
                             /\ CaseStates(sw[1]) = FillStates(<<b>>)
                        ELSE /\ output.state_goto
                             /\ Len(sw) <= 1
                             /\ Len(sw) = 1 <=> (FirstNonUse(i) /\ ~StartFlag)
                             /\ Len(sw) = 1 =>
                                   CaseStates(sw[1]) = FillStates(NonUse(output.cblocks))

\* C28: with storable state gen_state_goto_implicit generates the global state
\* switch at most once, for the first non-use block that finds state_goto
\* false; the flag then stays true and later non-use blocks get nothing;
\* every use block gets a local state switch over that block alone
C28_ImplicitOnce ==
    /\ []ImplicitSwitches
    /\ [][output.state_goto => output'.state_goto]_vars

\* two non-use blocks went through gen_state_goto_implicit: the first holds
\* the global state switch, the second holds none
C28_Witness ==
    /\ opts.storable_state /\ opts.code_model = "GOTO_LABEL" /\ pc.run = 1
    /\ Len(output.cblocks) = 2
    /\ output.cblocks[1].kind # "USE" /\ output.cblocks[2].kind # "USE"
    /\ Generated(output.cblocks[1].code[Len(output.cblocks[1].code)])
    /\ Generated(output.cblocks[2].code[Len(output.cblocks[2].code)])
    /\ Len(SwitchesOf(output.cblocks[1].code[Len(output.cblocks[1].code)])) = 1
    /\ Len(SwitchesOf(output.cblocks[2].code[Len(output.cblocks[2].code)])) = 0

\* block i of list l comes before the position of codegen_generate
Before(l, i) == l < pc.list \/ (l = pc.list /\ i < pc.block)

\* the code item is still to be expanded by pass 2
Unexpanded(item) == item.k \in {"DFAS", "STATE_GOTO", "COND_ENUM"}

\* the blocks up to the position have been expanded in order, the ones
\* before it have lost their DFAs, the ones after it are untouched
InOrder ==
    \A l \in 1 .. Len(BlockLists) : \A i \in 1 .. Len(output[BlockLists[l]]) :
        LET b == output[BlockLists[l]][i]
            b0 == from[BlockLists[l]][i]
            current == l = pc.list /\ i = pc.block /\ pc.item > 0
        IN  /\ Before(l, i) =>
                  /\ b.dfas = <<>>
                  /\ \A j \in 1 .. Len(b.code) : ~Unexpanded(b.code[j])
            /\ ~Before(l, i) => Len(b.dfas) = Len(b0.dfas)
            /\ (~Before(l, i) /\ ~current) => b.code = b0.code
            /\ current =>
                  /\ output.pblocks = BlockLists[l] /\ output.cur = i
                  /\ \A j \in 1 .. Len(b.code) :
                        /\ j >= pc.item => b.code[j] = b0.code[j]
                        /\ (j < pc.item - 1 \/ (j < pc.item /\ op # "failed")) =>
                              ~Unexpanded(b.code[j])
                        /\ (j = pc.item - 1 /\ op = "failed") => b.code[j] = b0.code[j]

\* C29: codegen_generate expands the code blocks and then the header blocks
\* in order; the first failing item ends it with a failure status, the item
\* unexpanded, every later item and block untouched, the DFAs of the failing
\* block kept and the current block still set; DFAs are cleared after each
\* block that succeeds, and the current block is reset only when all succeed
C29_ErrorPropagation ==
    /\ [](/\ InOrder
          /\ op = "failed" <=> ret = "FAIL"
          /\ op = "failed" => output.cur = pc.block /\ pc.item > 0
          /\ op = "done" => output.cur = 0 /\ pc.list > Len(BlockLists)
          /\ (output.cur = 0 /\ op # "init") => op = "done")
    /\ [][op = "failed" => (op' = "init" /\ pc'.run = 2)]_vars

\* a directive of the second code block names a block without code: the run has failed
\* there, after the first block was expanded and lost its DFAs
C29_Witness ==
    /\ op = "failed" /\ pc.run = 1 /\ pc.list = 1 /\ pc.block = 2 /\ pc.item = 2
    /\ output.cblocks[2].code[1].k = "STATE_GOTO"
    /\ output.cblocks[2].code[2].k = "DFAS"
    /\ output.cblocks[2].dfas # <<>>
    /\ output.cblocks[1].dfas = <<>>
    /\ Generated(output.cblocks[1].code[Len(output.cblocks[1].code)])
    /\ output.hblocks # <<>>

\* the condition that the action of the rule leaves the lexer in
NextCond == IF TheRule.semact.cond = <<>> THEN dfa.cond ELSE TheRule.semact.cond[1]

\* the statements of the rule that set the state or the condition, in order
RuleSets == SelectSeq(code, LAMBDA x : x.k \in {"state_set", "cond_set"})

\* the statements of a semantic action, user-defined or autogenerated
IsActionStmt(x) ==
    x.k \in {"setup", "line_info_input", "semact", "line_info_output",
             "cond_goto", "assign_state", "continue", "tailcall"}

\* the code of the rule is tag statements, then the sets, then the action
SetsBetween ==
    LET sets == {i \in 1 .. Len(code) : code[i].k \in {"state_set", "cond_set"}}
        acts == {i \in 1 .. Len(code) : IsActionStmt(code[i])}
    IN  /\ acts # {}
        /\ \A i \in sets : \A j \in acts : i < j
        /\ \A j \in acts : \A n \in j .. Len(code) : n \in acts
        /\ \A i \in sets : \A n \in i .. Len(code) : n \in sets \union acts

\* the condition-set of the rule, if it has one
ExpectedCondSet ==
    IF NextCond # dfa.cond /\ ~(opts.code_model = "LOOP_SWITCH" /\ opts.storable_state)
    THEN <<[k |-> "cond_set", cond |-> gen_cond_enum_elem(NextCond)]>>
    ELSE <<>>

RECURSIVE History(_, _)
History(trie, t) ==
    IF t = mtagRoot THEN <<>>
    ELSE Append(History(trie, trie[t + 1].pred), trie[t + 1].val)

\* the input before its NUL
Text == SubSeq(from, 1, Len(from) - 1)

\* the words of a text in which every word ends with a separator
RECURSIVE WordsOf(_, _)
WordsOf(text, word) ==
    IF text = <<>> THEN <<>>
    ELSE IF Head(text) = ";" THEN <<word>> \o WordsOf(Tail(text), <<>>)
    ELSE WordsOf(Tail(text), Append(word, Head(text)))

\* the text is a sequence of nonempty lowercase words, each ended by ';'
MatchesText ==
    /\ \A i \in 1 .. Len(Text) : Text[i] \in Lowercase \union {";"}
    /\ Text # <<>> => Text[Len(Text)] = ";"
    /\ \A i \in 1 .. Len(Text) : Text[i] = ";" => (i > 1 /\ Text[i - 1] # ";")

\* C24: when the accepting rule is reached the histories of x and y have the
\* same length and are at every position both nil or both positions, x not
\* after y; unwind does not panic and returns the ';'-terminated lowercase
\* words in input order; an input that does not match returns nil
C24_MtagHistories ==
    /\ pc.at = "return" =>
          /\ ret = "OK"
          /\ IF MatchesText THEN code = [ss |-> WordsOf(Text, <<>>)]
             ELSE code = [nil |-> TRUE]
    /\ (pc.at = "return" /\ code # [nil |-> TRUE]) =>
          LET hx == History(output, pc.x)
              hy == History(output, pc.y)
          IN  /\ Len(hx) = Len(hy)
              /\ \A i \in 1 .. Len(hx) :
                    \/ hx[i] = mtagNil /\ hy[i] = mtagNil
                    \/ hx[i] >= 0 /\ hy[i] >= 0 /\ hx[i] <= hy[i]

\* the accepting rule was reached on an input of two words
C24_Witness ==
    /\ pc.at = "return"
    /\ from = <<"b", "a", ";", "b", ";", "NUL">>
    /\ code = [ss |-> <<<<"b", "a">>, <<"b">>>>]
    /\ History(output, pc.x) = <<0, 3>>
    /\ History(output, pc.y) = <<2, 4>>

\* the code of the state before its dispatch
Entry == SubSeq(code, 1, Len(code) - Len(gen_go(from.go, from)))

\* the statements that the entry code of an initial state is made of, apart
\* from the fill and its label
IsEntryMark(x) ==
    \/ x.k \in {"assign_accept", "skip", "backup", "peek", "debug"}
    \/ x = [k |-> "nlabel", label |-> InitialLabel]

\* the fill and its label lie between the initial label and what follows it
FillAfterLabel ==
    \A i \in 1 .. Len(Entry) :
        (~IsEntryMark(Entry[i]) /\ Entry[i] # [k |-> "nlabel", label |-> StateLabel(from.id)]) =>
            /\ \E n \in 1 .. i - 1 : Entry[n] = [k |-> "nlabel", label |-> InitialLabel]
            /\ \A n \in i + 1 .. Len(Entry) : Entry[n].k \notin {"skip", "assign_accept", "nlabel"}
            /\ \A n \in 1 .. i - 1 : Entry[n].k \notin {"backup", "peek", "debug"}

\* the marks of the entry code when the accept store and the skip are there
\* under the given condition
EntryMarks(reentered) ==
    (IF reentered /\ from.naccepts > 1 /\ from.save # <<>>
     THEN <<[k |-> "assign_accept", save |-> from.save[1]]>> ELSE <<>>)
    \o (IF reentered /\ ~opts.eager_skip THEN <<[k |-> "skip"]>> ELSE <<>>)
    \o <<[k |-> "nlabel", label |-> InitialLabel]>>
    \o (IF from.save # <<>> THEN <<[k |-> "backup"]>> ELSE <<>>)
    \o (IF ~omit_peek(from) THEN <<[k |-> "peek"]>> ELSE <<>>)
    \o (IF opts.debug THEN <<[k |-> "debug", state |-> InitialLabel.index]>> ELSE <<>>)

\* C25 as stated: the entry code of an INITIAL state is the accept store iff
\* there is a save slot and more than one accept value, a skip unless
\* eager_skip, the initial label, fill and fill label, a backup iff there is
\* a save slot, the peek, the debug hook
C25_Original ==
    op = "emit_initial" =>
        /\ SelectSeq(Entry, IsEntryMark) = EntryMarks(TRUE)
        /\ FillAfterLabel

\* C25 amended: as stated, but the accept store and the skip are emitted
\* only if the label of the state is used, that is, if some transition
\* enters the state again
C25_InitialEntry ==
    op = "emit_initial" =>
        /\ SelectSeq(Entry, IsEntryMark) = EntryMarks(from.used)
        /\ FillAfterLabel

\* an initial state that is entered again, with a save slot, a fill and the
\* debug hook: all seven parts are there
C25_Witness ==
    /\ op = "emit_initial"
    /\ from.used /\ from.save # <<>> /\ from.naccepts = 2
    /\ ~opts.eager_skip /\ opts.debug /\ opts.fill_enable /\ opts.fill_eof = NOEOF
    /\ from.fill > 0 /\ from.fill_label # <<>> /\ opts.code_model = "GOTO_LABEL"
    /\ ~omit_peek(from)
    /\ Len(SelectSeq(Entry, IsEntryMark)) = 6
    /\ \E i \in 1 .. Len(Entry) : Entry[i].k = "fill"
    /\ \E i \in 1 .. Len(Entry) : Entry[i].k = "slabel"

\* the label indices of the states of the DFA, in DFA order
StateIds == [i \in 1 .. Len(dfa.states) |-> dfa.states[i].id]

\* the state of the DFA with the given label index
StateById(id) == CHOOSE st \in {dfa.states[i] : i \in 1 .. Len(dfa.states)} : st.id = id

\* C26: in loop/switch mode every state is emitted exactly once and in DFA
\* order; a case begins at the first state and at every state with a used
\* label and is numbered by the label index of that state; a state with an
\* unused label is in the case of the nearest state before it that began one
C26_SwitchCases ==
    op = "gen_dfa_as_switch_cases" =>
        /\ Concat([n \in 1 .. Len(code) |-> code[n].states]) = StateIds
        /\ \A n \in 1 .. Len(code) :
              /\ code[n].states # <<>>
              /\ code[n].number = code[n].states[1]
              /\ n > 1 => StateById(code[n].states[1]).used
              /\ \A m \in 2 .. Len(code[n].states) : ~StateById(code[n].states[m]).used
              /\ code[n].body =
                    Concat([m \in 1 .. Len(code[n].states) |->
                               StateCode(StateById(code[n].states[m]))])

\* the first state has an unused label and begins a case all the same; the
\* second and third state are in that case, the final state has its own
C26_Witness ==
    /\ op = "gen_dfa_as_switch_cases"
    /\ ~dfa.states[1].used /\ dfa.states[4].used
    /\ Len(code) = 2
    /\ code[1].number = 1 /\ code[1].states = <<1, 2, 3>>
    /\ code[2].number = 4 /\ code[2].states = <<4>>
    /\ code[2].body # <<>>

\* the statements of the code in textual order, those of the bodies of the
\* functions included
Statements ==
    Flatten(Concat([n \in 1 .. Len(code) |->
                       IF code[n].k = "FNDEF" THEN code[n].stmts ELSE <<code[n]>>]))

\* the tail calls of the code
TailCalls == SelectSeq(Statements, LAMBDA x : x.k = "tailcall")

\* the functions of the states
StateFns ==
    {code[n] : n \in {m \in 1 .. Len(code) :
                         /\ code[m].k = "FNDEF"
                         /\ "states" \in DOMAIN code[m]
                         /\ code[m].states # <<>>}}

\* a tail call to the function of a state of the DFA
CallsState(t) ==
    /\ t.fn.l \in {"state", "start"}
    /\ \E i \in 1 .. Len(dfa.states) : dfa.states[i].id = t.fn.index

\* the state needs the peek value of its caller
NeedsPeek(st) ==
    /\ st.kind = "MOVE" \/ (Len(st.go.span) = 1 /\ st.go.span[1] # "MOVE")
    /\ Len(st.go.span) > 1
    /\ ~(Len(st.go.span) = 1 /\ st.go.span[1] \in {"RULE", "ACCEPT"})

\* C27: in rec/func mode a tail call to the function of a state passes the
\* peek value iff the state omits its peek, has more than one span and is
\* not an end state, and the function of the state declares the peek
\* parameter under the same condition: arguments and parameters agree
C27_PeekArgument ==
    op = "gen_dfa_as_recursive_functions" =>
        /\ \A f \in StateFns : f.yych = NeedsPeek(StateById(f.states[1]))
        /\ \A n \in 1 .. Len(TailCalls) :
              LET t == TailCalls[n]
              IN  CallsState(t) =>
                     /\ t.yych = NeedsPeek(StateById(t.fn.index))
                     /\ \A f \in StateFns :
                           f.name = StateLabel(t.fn.index) => f.yych = t.yych

\* a DFA of a condition with a MOVE state of two spans: the transition into
\* it passes the peek value and its function declares it, and the resume
\* after fill, the fallback transition and the condition entry function call
\* functions without the parameter and pass nothing
C27_Witness ==
    /\ op = "gen_dfa_as_recursive_functions"
    /\ dfa.cond = "c1"
    /\ dfa.states[2].kind = "MOVE"
    /\ \E f \in StateFns : f.name = StateLabel(2) /\ f.yych
    /\ \E f \in StateFns : f.name = StateLabel(4) /\ ~f.yych
    /\ \E n \in 1 .. Len(TailCalls) : TailCalls[n] = [k |-> "tailcall", fn |-> StateLabel(2), yych |-> TRUE]
    /\ \E n \in 1 .. Len(TailCalls) : TailCalls[n] = [k |-> "tailcall", fn |-> StateLabel(4), yych |-> FALSE]
    /\ Cardinality({n \in 1 .. Len(TailCalls) :
                       TailCalls[n] = [k |-> "tailcall", fn |-> StateLabel(1), yych |-> FALSE]}) > 1
    /\ \E n \in 1 .. Len(code) :
          /\ code[n].k = "FNDEF"
          /\ code[n].name = fn_name_for_cond("c1")
          /\ code[n].stmts = <<[k |-> "tailcall", fn |-> StateLabel(1), yych |-> FALSE]>>

\* the comparison of the accept value v that an IF of the dispatch makes
Holds(cond, v) == IF cond.cmp = "==" THEN v = cond.val ELSE v <= cond.val

\* the list ends in a transfer of control
Transfers(t) == t # <<>> /\ t[Len(t)].k \in {"goto", "continue", "tailcall"}

\* the case of a switch that the value v selects: the case numbered v, the
\* default case if there is none
Selected(cases, v) ==
    LET hit == {i \in 1 .. Len(cases) : ~cases[i].default /\ cases[i].number = v}
        dflt == {i \in 1 .. Len(cases) : cases[i].default}
    IN  IF hit # {} THEN cases[CHOOSE i \in hit : TRUE].body
        ELSE IF dflt # {} THEN cases[CHOOSE i \in dflt : TRUE].body
        ELSE <<>>

\* the statements that the list executes when the accept value is v, up to
\* the first transfer of control; a jump through a table is the jump to the
\* element of the table at index v
RECURSIVE Exec(_, _)
Exec(l, v) ==
    IF l = <<>> THEN <<>>
    ELSE LET x == Head(l)
             inner ==
                 CASE x.k = "if" -> Exec(IF Holds(x.cond, v) THEN x.then ELSE x.else, v)
                   [] x.k = "switch" -> Exec(Selected(x.cases, v), v)
                   [] x.k = "block" ->
                        IF x.body[1].k = "array" /\ x.body[2].k = "goto"
                        THEN <<[k |-> "goto", label |-> x.body[1].elems[v + 1]]>>
                        ELSE Exec(x.body, v)
                   [] OTHER -> <<x>>
         IN  IF Transfers(inner) THEN inner ELSE inner \o Exec(Tail(l), v)

\* the label index of the state that the executed statements transfer to
Target(t) ==
    LET x == t[Len(t)]
    IN  CASE x.k = "goto" -> x.label.index
          [] x.k = "tailcall" -> x.fn.index
          [] x.k = "continue" -> t[Len(t) - 1].next.index

\* the executed statements without the transfer of control at their end
BeforeTransfer(t) ==
    SubSeq(t, 1, Len(t) - (IF t[Len(t)].k = "continue" THEN 2 ELSE 1))

\* the form of the dispatch
DispatchForm ==
    LET x == code[2]
    IN  CASE x.k = "block" -> "table"
          [] x.k = "if" -> "binary"
          [] x.k = "switch" -> "switch"
          [] OTHER -> "none"

\* C30: for an ACCEPT state with n >= 2 rows the dispatch is a table of
\* targets when computed gotos are on, n reaches the threshold and no row has
\* tags, otherwise the binary tree of IFs when nested IFs are on or n = 2,
\* otherwise a switch whose last row is the default; for every accept value
\* v in 0 .. n-1 it restores the cursor, applies the tags of row v and
\* transfers to the state of row v, and does nothing else
C30_AcceptDispatch ==
    (op = "emit_accept" /\ Len(from.accepts) >= 2) =>
        LET acc == from.accepts
            n == Len(acc)
            have_tags == \E i \in 1 .. n : acc[i].tags # TCID0
        IN  /\ Len(code) = 2
            /\ DispatchForm =
                  (IF opts.computed_gotos /\ n >= opts.computed_gotos_threshold /\ ~have_tags
                   THEN "table"
                   ELSE IF opts.nested_ifs \/ n = 2 THEN "binary" ELSE "switch")
            /\ DispatchForm = "switch" =>
                  /\ Len(code[2].cases) = n
                  /\ \A i \in 1 .. n : code[2].cases[i].default <=> i = n
            /\ \A v \in 0 .. n - 1 :
                  LET t == Exec(code, v)
                      row == acc[v + 1]
                  IN  /\ Transfers(t)
                      /\ Target(t) = row.state.id
                      /\ BeforeTransfer(t) = <<[k |-> "restore"]>> \o gen_settags(row.tags)

\* three rows, the third with tags, under nested IFs: the accept value 2
\* takes the ELSE branch of the tree, sets the tag of the third row and
\* transfers to its state
C30_Witness ==
    /\ op = "emit_accept"
    /\ opts.nested_ifs /\ ~opts.computed_gotos /\ opts.code_model = "GOTO_LABEL"
    /\ Len(from.accepts) = 3
    /\ from.accepts[3] = [state |-> Dest(12), tags |-> 1]
    /\ from.accepts[1].state.id = 11 /\ from.accepts[2].state.id = 13
    /\ DispatchForm = "binary"
    /\ Len(Exec(code, 2)) = 3
    /\ Target(Exec(code, 2)) = 12
    /\ Target(Exec(code, 0)) = 11
    /\ Target(Exec(code, 1)) = 13

====
